---- MODULE Spec2Model ----
(***************************************************************************)
(* Docker MCP Gateway: the lifecycle manager (DockerManager), its config   *)
(* store (ConfigManager) and the container engine it drives.               *)
(*                                                                         *)
(* Python objects are modelled with their identity: ContainerConfig and    *)
(* ContainerStats objects live in two heaps, and the dictionaries and the  *)
(* ContainerInfo records hold references (heap ids) to them, so that a     *)
(* write through one reference is seen through every other one.            *)
(* Python's None and 0 are both written 0 for ports, ids and timestamps    *)
(* (the code tests them with `if x:`).                                     *)
(***************************************************************************)
EXTENDS Integers, FiniteSets, Sequences, TLC

\* ------------------------------------------------------------------ bounds
\* number of operations that read datetime.now() in one run
MaxClock == 1
\* number of ports of the automatic range [AUTO_PORT_START, AUTO_PORT_END]
RangeSize == 1

\* chunks an upstream sends in one response body
MaxChunks == 3
\* frames each side of a WebSocket bridge sends
MaxFrames == 2
\* tokens of a command made of any tokens
MaxTokens == 3
\* options of a kind, and arguments of the workload, in a command
MaxFlags == 2

\* ---------------------------------------------------------- program constants
AUTO_PORT_START == 18100
AUTO_PORT_END == AUTO_PORT_START + RangeSize - 1
FlushEvery == 100
DefaultInternalPort == 8081
\* WebSocket close codes
NotReadyCode == 1011
NotFoundCode == 1008
InternalErrorCode == 1011
\* the status codes proxy_request answers a failed forwarding with
BadGateway == 502
GatewayTimeout == 504
ProxyError == 500

Names == {"a", "b"}
\* the names create_container and start_container are called for
CreateNames == {"a"}
AutoRange == AUTO_PORT_START .. AUTO_PORT_END
\* host ports a caller may ask for outside the automatic range
PreferredPorts == {8080}
\* a port the engine may pick by itself when it does not honour the request
EphemeralPorts == {32768}
Ports == AutoRange \cup PreferredPorts \cup EphemeralPorts
InternalPorts == {DefaultInternalPort}
\* total_requests values found in stats.json at start-up
InitTotals == {99}

\* ------------------------------------------------------------------- state
VARIABLES
    containers,       \* ConfigManager._containers : name -> config object id
    cfgHeap,          \* ContainerConfig objects   : id -> record
    stats,            \* ConfigManager._stats      : name -> stats object id
    statsHeap,        \* ContainerStats objects    : id -> record
    containers_file,  \* containers.yaml           : name -> saved config
    stats_file,       \* stats.json                : name -> saved total_requests
    container_info,   \* DockerManager._container_info : name -> ContainerInfo
    engine,           \* the container engine      : name -> entity
    os_bound,         \* host ports bound by processes outside the engine
    clock,            \* datetime.now(): a logical clock, one tick per reading operation
    phase,            \* "constructed" | "ready" | "failed" | "closed"
    last,             \* the call just made and its outcome, until the caller has it
    proxy,            \* ProxyClient.proxy_request in flight, its upstream and its client
    ws,               \* proxy_mcp_websocket in flight, its client and its target
    parser,           \* parse_docker_command: the command given and what it returned
    creating,         \* create_container coroutines in flight : caller -> its position
    tasks             \* the health task and the shutdown of lifespan, each at its position

vars == <<containers, cfgHeap, stats, statsHeap, containers_file, stats_file,
          container_info, engine, os_bound, clock, phase, last, proxy, ws, parser,
          creating, tasks>>

\* the traffic in flight, the parser and the coroutines in flight, which the
\* operations of DockerManager that run to their end leave alone
trafficVars == <<proxy, ws, parser, creating, tasks>>

\* the state of DockerManager, ConfigManager and the engine
gatewayVars == <<containers, cfgHeap, stats, statsHeap, containers_file, stats_file,
                 container_info, engine, os_bound, clock, phase, last>>

\* proxy_request in flight. `pc`: "idle", "body" (awaiting request.body()),
\* "connecting" and "reading" (inside client.request: before the response
\* headers, then while httpx reads the response body), "relaying" (the
\* StreamingResponse was returned and its generator is iterated), "done" (the
\* response is complete), "raised" (an exception left proxy_request).
\* `produced` counts the chunks the upstream has sent, `delivered` the chunks
\* the client has got; `status` is the status code sent to the client (0: none
\* yet); `failure` is the exception that ended the request ("" when none).
\* Headers are sets of header names: `request_headers` of the inbound request,
\* `headers` of the request sent upstream, `upstream_headers` of the upstream
\* response, `response_headers` of the response returned to the client.
ProxyState(pc, ctype, upstream_status, produced, ended, delivered, status, failure) ==
    [pc |-> pc, ctype |-> ctype, upstream_status |-> upstream_status,
     produced |-> produced, ended |-> ended, delivered |-> delivered,
     status |-> status, failure |-> failure,
     request_headers |-> {}, headers |-> {},
     upstream_headers |-> {}, response_headers |-> {}]

\* a WebSocket connection to /mcp/{server_name}/ws. `pc`: "idle", "open" (both
\* forwarding tasks were started), "closed". `close_code` is the code the
\* inbound socket was closed with (0: none) and `cause` why the bridge could not
\* be set up ("" when it could). `client_sent` and `target_sent` are the frames
\* each side has sent, `to_target` and `to_client` the number of them the
\* forwarding task of that direction has taken, `target_got` and `client_got`
\* the frames that arrived. `closes` remembers <<cause, code>> of every failed
\* setup so far.
Bridge(pc, cause, close_code, closes) ==
    [pc |-> pc, cause |-> cause, close_code |-> close_code, closes |-> closes,
     accepted |-> FALSE, client_up |-> TRUE, target_up |-> TRUE,
     forward_to_target |-> "", forward_to_client |-> "",
     client_sent |-> <<>>, to_target |-> 0, target_got |-> <<>>,
     target_sent |-> <<>>, to_client |-> 0, client_got |-> <<>>]

\* no WebSocket connection yet
NoBridge == Bridge("idle", "", 0, {})

\* no request is being forwarded
NoProxy == ProxyState("idle", "", 0, 0, FALSE, 0, 0, "")

\* ------------------------------------------------------------- dict helpers
EmptyDict == [x \in {} |-> 0]
Put(d, k, v) == [x \in (DOMAIN d) \cup {k} |-> IF x = k THEN v ELSE d[x]]
Del(d, k) == [x \in (DOMAIN d) \ {k} |-> d[x]]
Restrict(d, S) == [x \in (DOMAIN d) \cap S |-> d[x]]
Range(d) == {d[x] : x \in DOMAIN d}
\* {**d, **e}: the entries of e win
Merge(d, e) == [x \in (DOMAIN d) \cup (DOMAIN e) |-> IF x \in DOMAIN e THEN e[x] ELSE d[x]]
Min(S) == CHOOSE x \in S : \A y \in S : x <= y

\* a fresh object id: the least id no live object has
FreshId(heap) == Min((1 .. (Cardinality(DOMAIN heap) + 1)) \ DOMAIN heap)

\* ----------------------------------------------------------------- models.py
ContainerConfig(internal_port, host_port) ==
    [internal_port |-> internal_port, host_port |-> host_port, labels |-> EmptyDict]

ContainerStats ==
    [total_requests |-> 0, last_access_time |-> 0, created_at |-> 0, started_at |-> 0]

ContainerInfo(config, status, container_id, internal_url, st, host_port) ==
    [config |-> config, status |-> status, container_id |-> container_id,
     internal_url |-> internal_url, health_status |-> "unknown",
     host_port |-> host_port, stats |-> st]

\* f"http://localhost:{host_port}" and f"http://{name}:{internal_port}"
UrlLocalhost(port) == <<"localhost", port>>
UrlByName(name, internal_port) == <<name, internal_port>>

\* ------------------------------------------------------------------ engine
\* container.attrs NetworkSettings.Ports[f"{internal_port}/tcp"][0].HostPort:
\* the engine lists a binding only while the entity runs.
GATEWAY_LABEL == "docker-mcp-gateway.managed"
GATEWAY_NAME_LABEL == "docker-mcp-gateway.name"

Entity(id, status, managed, iport, hport) ==
    [id |-> id, status |-> status, iport |-> iport, hport |-> hport,
     labels |-> IF managed THEN Put(EmptyDict, GATEWAY_LABEL, "true") ELSE EmptyDict]

\* labels.get(GATEWAY_LABEL) == "true"
IsManaged(container) ==
    GATEWAY_LABEL \in DOMAIN container.labels /\ container.labels[GATEWAY_LABEL] = "true"

ReportedBinding(e, internal_port) ==
    IF e.status = "running" /\ e.iport = internal_port THEN e.hport ELSE 0

\* host ports held by running entities
EngineBound(eng) == {eng[n].hport : n \in {m \in DOMAIN eng : eng[m].status = "running"}} \ {0}

\* is_port_available: a bind on the wildcard address succeeds
is_port_available(port) == port \notin os_bound /\ port \notin EngineBound(engine)

\* ------------------------------------------------------ config.py (ConfigManager)
\* The gateway's objects gathered in one record, so that the steps of a handler
\* can be composed: g.containers, g.cfgHeap, g.stats, g.statsHeap, the two files,
\* and g.container_info.
G == [containers |-> containers, cfgHeap |-> cfgHeap, stats |-> stats,
      statsHeap |-> statsHeap, containers_file |-> containers_file,
      stats_file |-> stats_file, container_info |-> container_info]

\* the two saves: the write is taken to succeed (a failed one is caught and logged)
_save_containers(g) ==
    [g EXCEPT !.containers_file = [n \in DOMAIN g.containers |-> g.cfgHeap[g.containers[n]]]]

_save_stats(g) ==
    [g EXCEPT !.stats_file =
        [n \in DOMAIN g.stats |-> g.statsHeap[g.stats[n]].total_requests]]

\* get_stats creates the entry when it is missing; the object it returns is
\* get_stats(g, name).stats[name]
get_stats(g, name) ==
    IF name \in DOMAIN g.stats THEN g
    ELSE LET id == FreshId(g.statsHeap)
         IN [g EXCEPT !.statsHeap = Put(@, id, ContainerStats),
                      !.stats = Put(@, name, id)]

\* add_container(config): `cid` is the config object
add_container(g, name, cid) ==
    LET g1 == [g EXCEPT !.containers = Put(@, name, cid)]
    IN _save_containers(get_stats(g1, name))

config_remove_container(g, name) ==
    IF name \in DOMAIN g.containers
    THEN _save_stats(_save_containers(
            [g EXCEPT !.containers = Del(@, name), !.stats = Del(@, name)]))
    ELSE g

increment_requests(g, name, t) ==
    LET g1 == get_stats(g, name)
        id == g1.stats[name]
        g2 == [g1 EXCEPT !.statsHeap[id].total_requests = @ + 1,
                         !.statsHeap[id].last_access_time = t]
    IN IF g2.statsHeap[id].total_requests % FlushEvery = 0 THEN _save_stats(g2) ELSE g2

\* ------------------------------------------------------------ commit a step
\* objects no dictionary and no ContainerInfo refers to any more are collected
LiveConfigs(g) ==
    Range(g.containers) \cup {g.container_info[n].config : n \in DOMAIN g.container_info}
LiveStats(g) ==
    Range(g.stats) \cup {g.container_info[n].stats : n \in DOMAIN g.container_info}

Commit(g) ==
    /\ containers' = g.containers
    /\ cfgHeap' = Restrict(g.cfgHeap, LiveConfigs(g))
    /\ stats' = g.stats
    /\ statsHeap' = Restrict(g.statsHeap, LiveStats(g))
    /\ containers_file' = g.containers_file
    /\ stats_file' = g.stats_file
    /\ container_info' = g.container_info

\* The record of the step just made: the operation, its arguments, what it
\* returned or raised (`result`), the engine calls it issued (`calls`), and for
\* create_container, called directly or from start_container, what it raised
\* (`create`), whether it imported or ran the entity (`path`), and whether its
\* _get_container lookup ended in an engine error (`lookup_err`). A call that
\* returns a URL has it in `url` (<<>> is None); `port` is the host port the call
\* was given (0 is None) and `out_port` the port _allocate_port returned (0 when
\* it raised); `seen` holds, by name, what the engine answered to the call.
Call(op, name, import_existing, result, calls, create, path) ==
    [op |-> op, name |-> name, import_existing |-> import_existing,
     result |-> result, calls |-> calls, create |-> create, path |-> path,
     lookup_err |-> FALSE, url |-> <<>>, port |-> 0, out_port |-> 0, seen |-> EmptyDict]

\* no call is awaiting its caller
Idle == Call("", "", FALSE, "", {}, "", "")

\* Handlers run one at a time, each to its end (no two calls overlap here).
Ready == phase = "ready" /\ last = Idle

Finish(g, eng, t, call) ==
    /\ Commit(g)
    /\ engine' = eng
    /\ clock' = t
    /\ last' = call
    /\ UNCHANGED <<os_bound, phase, trafficVars>>

\* ----------------------------------------------------- docker_manager.py
\* _get_container: the entity, or None when it is absent or the lookup fails
\* (`err`: containers.get raised something other than NotFound)
_get_container(name, err) == name \in DOMAIN engine /\ ~err

\* a lookup can only fail differently from NotFound when there is an entity
LookupErrs(name) == IF name \in DOMAIN engine THEN BOOLEAN ELSE {FALSE}

\* one pass of the loop of _sync_containers
SyncOne(g, name, err) ==
    LET cid == g.containers[name]
        config == g.cfgHeap[cid]
        found == _get_container(name, err)
        actual_port == IF found THEN ReportedBinding(engine[name], config.internal_port) ELSE 0
        host_port == IF actual_port # 0 THEN actual_port ELSE config.host_port
        g1 == IF found /\ actual_port # 0 /\ config.host_port # host_port
              THEN add_container([g EXCEPT !.cfgHeap[cid].host_port = host_port], name, cid)
              ELSE g
        status == IF found THEN engine[name].status ELSE "not_created"
        container_id == IF found THEN engine[name].id ELSE 0
        internal_url == IF host_port # 0 THEN UrlLocalhost(host_port)
                        ELSE UrlByName(name, config.internal_port)
        g2 == get_stats(g1, name)
    IN [g2 EXCEPT !.container_info =
            Put(@, name, ContainerInfo(cid, status, container_id, internal_url,
                                       g2.stats[name], host_port))]

RECURSIVE _sync_containers(_, _, _)
_sync_containers(g, todo, errs) ==
    IF todo = {} THEN g
    ELSE LET name == CHOOSE n \in todo : TRUE
         IN _sync_containers(SyncOne(g, name, name \in errs), todo \ {name}, errs)

\* _ensure_network(): the network is there, is created, or listing or creating
\* it fails; every failure is caught and logged
NetworkOutcomes == {"exists", "created", "list_failed", "create_failed"}

\* (variant: a network that can be neither listed nor created aborts start-up)
InitializeResult_NetworkFatal(ping_ok, network) ==
    IF ping_ok /\ network \in {"exists", "created"} THEN "ok" ELSE "RuntimeError"

\* what initialize() gives its caller
InitializeResult(ping_ok, network) == IF ping_ok THEN "ok" ELSE "RuntimeError"

\* initialize(): the ping decides; the network is ensured, every persisted
\* config is reconciled and the health-check task is created (`phase` "ready").
\* `create` of the call records the ping, `path` the network step, `seen` the
\* names whose lookup failed.
initialize ==
    /\ phase = "constructed"
    /\ last = Idle
    /\ \E ping_ok \in BOOLEAN, network \in NetworkOutcomes :
         IF InitializeResult(ping_ok, network) # "ok"
         THEN /\ phase' = "failed"
              /\ last' = Call("initialize", "", FALSE, "RuntimeError", {},
                              IF ping_ok THEN "ping" ELSE "ping_failed",
                              IF ping_ok THEN network ELSE "")
              /\ UNCHANGED <<containers, cfgHeap, stats, statsHeap, containers_file,
                             stats_file, container_info, engine, os_bound, clock, trafficVars>>
         ELSE \E errs \in SUBSET {n \in DOMAIN containers : n \in DOMAIN engine} :
              /\ Commit(_sync_containers(G, DOMAIN containers, errs))
              /\ phase' = "ready"
              /\ last' = [Call("initialize", "", FALSE, "ok", {}, "ping", network)
                              EXCEPT !.seen = [n \in errs |-> [err |-> TRUE]]]
              /\ UNCHANGED <<engine, os_bound, clock, trafficVars>>

\* record_request(name) at time t: the stores it leaves
RecordRequest(name, t) ==
    LET g1 == increment_requests(G, name, t)
    IN IF name \in DOMAIN g1.container_info
       THEN LET id == g1.container_info[name].stats
            IN [g1 EXCEPT !.statsHeap[id].total_requests = @ + 1,
                          !.statsHeap[id].last_access_time = t]
       ELSE g1

\* record_request(name)
record_request(name) ==
    /\ Ready
    /\ clock < MaxClock
    /\ Finish(RecordRequest(name, clock + 1), engine, clock + 1,
              Call("record_request", name, FALSE, "ok", {}, "", ""))

\* (variant: the stores are cleaned before the engine call is known to succeed)
RemoveOutcome_EagerCleanup(name, found, remove_ok) ==
    LET g1 == config_remove_container(G, name)
        g2 == [g1 EXCEPT !.container_info = Del(@, name)]
    IN IF found /\ ~remove_ok
       THEN [g |-> g2, engine |-> engine, result |-> "False"]
       ELSE [g |-> g2, engine |-> IF found THEN Del(engine, name) ELSE engine,
             result |-> "True"]

\* remove_container(name, force=True) once the lookup is made: the stores, the
\* engine and the value returned. `remove_ok`: container.remove did not raise.
RemoveOutcome(name, found, remove_ok) ==
    IF found /\ ~remove_ok
    THEN \* container.remove raised: nothing below the call runs
         [g |-> G, engine |-> engine, result |-> "False"]
    ELSE LET g1 == config_remove_container(G, name)
         IN [g |-> [g1 EXCEPT !.container_info = Del(@, name)],
             engine |-> IF found THEN Del(engine, name) ELSE engine,
             result |-> "True"]

remove_container(name) ==
    /\ Ready
    /\ \E get_err \in LookupErrs(name), remove_ok \in BOOLEAN :
         LET found == _get_container(name, get_err)
             out == RemoveOutcome(name, found, remove_ok)
         IN Finish(out.g, out.engine, clock,
                   Call("remove_container", name, FALSE, out.result,
                        IF found THEN {"remove"} ELSE {}, "", ""))

\* (variant: the check of the config store is left out)
_check_name_conflict_EngineOnly(g, name, err) ==
    IF name \in DOMAIN engine /\ ~err
    THEN IF IsManaged(engine[name]) THEN "" ELSE "used_by_other"
    ELSE ""

\* _check_name_conflict: <<is_conflict, error_message>>, here the reason alone
\* (`err`: containers.get raised something other than NotFound)
_check_name_conflict(g, name, err) ==
    IF name \in DOMAIN g.containers THEN "in_config"
    ELSE IF name \in DOMAIN engine /\ ~err
         THEN IF IsManaged(engine[name]) THEN "" ELSE "used_by_other"
         ELSE ""

\* _get_used_ports (`list_err`: containers.list raised)
_get_used_ports(g, list_err) ==
    ({g.cfgHeap[g.containers[n]].host_port : n \in DOMAIN g.containers} \ {0})
    \cup (IF list_err THEN {}
          ELSE {ReportedBinding(engine[n], engine[n].iport) : n \in DOMAIN engine} \ {0})

_check_port_conflict(g, host_port, list_err) ==
    IF host_port = 0 THEN FALSE
    ELSE ~is_port_available(host_port) \/ host_port \in _get_used_ports(g, list_err)

\* (variant: the scan of the range does not consult the used ports)
_allocate_port_ProbeOnly(g, preferred_port, list_err) ==
    IF preferred_port # 0 /\ ~_check_port_conflict(g, preferred_port, list_err)
    THEN preferred_port
    ELSE LET free == {port \in AutoRange : is_port_available(port)}
         IN IF free = {} THEN 0 ELSE Min(free)

\* (variant: an exhausted range gives the preferred port back instead of raising)
_allocate_port_KeepsPreferred(g, preferred_port, list_err) ==
    IF preferred_port # 0 /\ ~_check_port_conflict(g, preferred_port, list_err)
    THEN preferred_port
    ELSE LET used_ports == _get_used_ports(g, list_err)
             free == {port \in AutoRange : port \notin used_ports /\ is_port_available(port)}
         IN IF free = {} THEN preferred_port ELSE Min(free)

\* _allocate_port: the port, or 0 when it raises RuntimeError (range exhausted)
_allocate_port(g, preferred_port, list_err) ==
    IF preferred_port # 0 /\ ~_check_port_conflict(g, preferred_port, list_err)
    THEN preferred_port
    ELSE LET used_ports == _get_used_ports(g, list_err)
             free == {port \in AutoRange : port \notin used_ports /\ is_port_available(port)}
         IN IF free = {} THEN 0 ELSE Min(free)

\* a listing can only differ from a failed one when a running entity holds a port
ListErrs == IF EngineBound(engine) = {} THEN {FALSE} ELSE BOOLEAN

\* an engine id no entity and no ContainerInfo holds
FreshEntityId ==
    LET used == {engine[n].id : n \in DOMAIN engine}
                \cup {container_info[n].container_id : n \in DOMAIN container_info}
    IN Min((1 .. (Cardinality(used) + 1)) \ used)

\* (variant: the engine takes a second entity of a name that is in use)
RunOutcomes_NameNotUnique(name, host_port) ==
    {"api_error", "created_not_started"}
    \cup (IF is_port_available(host_port) THEN {"ok", "ok_exited"} ELSE {})
    \cup (IF \E p \in EphemeralPorts : is_port_available(p) THEN {"ok_other"} ELSE {})

\* what containers.run(image, name, detach, ports = {internal/tcp: host_port}) can
\* do: fail and leave nothing ("api_error", always so when the name is taken),
\* create the entity and fail to start it ("created_not_started"), start it on
\* the requested port ("ok"), start it and see it exit at once ("ok_exited"),
\* or start it on a port of the engine's own choice ("ok_other").
RunOutcomes(name, host_port) ==
    IF name \in DOMAIN engine THEN {"api_error"}
    ELSE {"api_error", "created_not_started"}
         \cup (IF is_port_available(host_port) THEN {"ok", "ok_exited"} ELSE {})
         \cup (IF \E p \in EphemeralPorts : is_port_available(p) THEN {"ok_other"} ELSE {})

\* the labels create_container hands to containers.run
container_labels(name, config) ==
    Merge(Put(Put(EmptyDict, GATEWAY_LABEL, "true"), GATEWAY_NAME_LABEL, name),
          config.labels)

RunEntity(outcome, name, config, host_port) ==
    [Entity(FreshEntityId,
            CASE outcome = "created_not_started" -> "created"
              [] outcome = "ok_exited" -> "exited"
              [] OTHER -> "running",
            TRUE, config.internal_port,
            IF outcome = "ok_other"
            THEN Min({p \in EphemeralPorts : is_port_available(p)})
            ELSE host_port)
        EXCEPT !.labels = container_labels(name, config)]

\* (variant: the engine's host port is not adopted)
_import_existing_container_KeepPort(g, name, cid) ==
    LET container == engine[name]
        g2 == add_container(g, name, cid)
        config == g2.cfgHeap[cid]
        internal_url == IF config.host_port # 0 THEN UrlLocalhost(config.host_port)
                        ELSE UrlByName(name, config.internal_port)
        g3 == get_stats(g2, name)
    IN [g3 EXCEPT !.container_info =
            Put(@, name, ContainerInfo(cid, container.status, container.id, internal_url,
                                       g3.stats[name], config.host_port))]

\* _import_existing_container(name, config, container)
_import_existing_container(g, name, cid) ==
    LET container == engine[name]
        host_port == ReportedBinding(container, g.cfgHeap[cid].internal_port)
        g1 == IF host_port # 0 THEN [g EXCEPT !.cfgHeap[cid].host_port = host_port] ELSE g
        g2 == add_container(g1, name, cid)
        config == g2.cfgHeap[cid]
        internal_url == IF config.host_port # 0 THEN UrlLocalhost(config.host_port)
                        ELSE UrlByName(name, config.internal_port)
        g3 == get_stats(g2, name)
    IN [g3 EXCEPT !.container_info =
            Put(@, name, ContainerInfo(cid, container.status, container.id, internal_url,
                                       g3.stats[name], config.host_port))]

\* (variant: the engine's binding is not reconciled into the config)
CreateSucceeded_NoReconcile(g, name, cid, container, t) ==
    LET g2 == add_container(g, name, cid)
        config == g2.cfgHeap[cid]
        g3 == get_stats(g2, name)
        sid == g3.stats[name]
        g4 == [g3 EXCEPT !.container_info =
                 Put(@, name, ContainerInfo(cid, "running", container.id,
                                            UrlLocalhost(config.host_port), sid,
                                            config.host_port))]
    IN [g4 EXCEPT !.statsHeap[sid].created_at = t, !.statsHeap[sid].started_at = t]

\* create_container after containers.run and container.reload succeeded:
\* reconcile the port, persist, then track as running
CreateSucceeded(g, name, cid, container, t) ==
    LET actual_port == ReportedBinding(container, g.cfgHeap[cid].internal_port)
        g1 == IF actual_port # 0 /\ actual_port # g.cfgHeap[cid].host_port
              THEN [g EXCEPT !.cfgHeap[cid].host_port = actual_port] ELSE g
        g2 == add_container(g1, name, cid)
        config == g2.cfgHeap[cid]
        g3 == get_stats(g2, name)
        sid == g3.stats[name]
        g4 == [g3 EXCEPT !.container_info =
                 Put(@, name, ContainerInfo(cid, "running", container.id,
                                            UrlLocalhost(config.host_port), sid,
                                            config.host_port))]
    IN [g4 EXCEPT !.statsHeap[sid].created_at = t, !.statsHeap[sid].started_at = t]

\* (variant: what create_container raises passes through start_container)
StartResult_Propagates(r) == IF r = "ok" THEN "True" ELSE r

\* what start_container returns after it called create_container: True when
\* that returned, False when it raised (the except of start_container)
StartResult(r) == IF r = "ok" THEN "True" ELSE "False"

\* create_container(config, import_existing), `cid` the config object passed in,
\* `op` the operation it runs for ("create_container", or "start_container" when
\* start_container calls it); Ret(r) is what that operation then returns or raises.
create_container(g, name, cid, import_existing, op) ==
    LET Ret(r) == IF op = "start_container" THEN StartResult(r) ELSE r
        Made(r, calls, path) ==
            [Call(op, name, import_existing, Ret(r), calls, r, path)
                EXCEPT !.port = g.cfgHeap[cid].host_port]
        Done(gg, eng, t, r, calls, path) == Finish(gg, eng, t, Made(r, calls, path))
        DoneL(gg, eng, t, r, calls, path) ==
            Finish(gg, eng, t, [Made(r, calls, path) EXCEPT !.lookup_err = TRUE])
    IN
    \E check_err \in LookupErrs(name) :
    LET conflict == _check_name_conflict(g, name, check_err) IN
    IF conflict # "" /\ ~import_existing
    THEN Done(g, engine, clock, "NameConflict", {}, "")
    ELSE
    \E get_err \in LookupErrs(name) :
    LET Out(gg, eng, t, r, calls, path) ==
            IF get_err THEN DoneL(gg, eng, t, r, calls, path)
            ELSE Done(gg, eng, t, r, calls, path)
    IN
    IF _get_container(name, get_err)
    THEN IF import_existing
         THEN Out(_import_existing_container(g, name, cid), engine, clock, "ok", {}, "import")
         ELSE Out(g, engine, clock, "AlreadyExists", {}, "")
    ELSE
    \E list_err \in ListErrs :
    LET original_port == g.cfgHeap[cid].host_port
        host_port ==
            IF original_port # 0
            THEN IF _check_port_conflict(g, original_port, list_err)
                 THEN _allocate_port(g, original_port, list_err)
                 ELSE original_port
            ELSE _allocate_port(g, 0, list_err)
        g1 == [g EXCEPT !.cfgHeap[cid].host_port = host_port]
        config == g1.cfgHeap[cid]
    IN
    IF host_port = 0
    THEN \* _allocate_port raised: config.host_port was not assigned
         Out(g, engine, clock, "PortRangeExhausted", {}, "")
    ELSE
    \E pull \in {"ok", "ImageNotFound", "APIError"} :
    IF pull # "ok"
    THEN Out(g1, engine, clock,
              IF pull = "ImageNotFound" THEN "ImagePullFailed" ELSE "EngineAPIError",
              {"pull"}, "")
    ELSE
    \E run \in RunOutcomes(name, host_port) :
    LET container == RunEntity(run, name, config, host_port) IN
    IF run = "api_error"
    THEN Out(g1, engine, clock, "EngineAPIError", {"pull", "run"}, "")
    ELSE IF run = "created_not_started"
    THEN Out(g1, Put(engine, name, container), clock, "EngineAPIError", {"pull", "run"}, "")
    ELSE
    \E reload_ok \in (IF clock < MaxClock THEN BOOLEAN ELSE {FALSE}) :
    IF ~reload_ok
    THEN Out(g1, Put(engine, name, container), clock, "EngineAPIError", {"pull", "run"}, "")
    ELSE Out(CreateSucceeded(g1, name, cid, container, clock + 1),
              Put(engine, name, container), clock + 1, "ok", {"pull", "run"}, "run")

\* the configs a caller hands to create_container
InputConfigs ==
    {ContainerConfig(ip, hp) : ip \in InternalPorts, hp \in {0} \cup PreferredPorts}

\* create_container called by the REST layer or any other caller: the config is
\* an object of the caller's
CreateContainer(name, config, import_existing) ==
    /\ Ready
    /\ LET cid == FreshId(cfgHeap)
       IN create_container([G EXCEPT !.cfgHeap = Put(@, cid, config)], name, cid,
                           import_existing, "create_container")

\* ---- create_container as a coroutine
\* create_container gives the event loop away at its three awaits:
\* _get_container (450), images.pull (484) and containers.run (523). Each of
\* these engine calls runs in a worker thread, and the code between two awaits
\* runs without interruption. A coroutine is at `pc`: "idle" (not called),
\* "get" (awaiting _get_container), "got" (the lookup has answered `existing`),
\* "pull" (awaiting images.pull), "run" (awaiting containers.run), "ran" (the
\* engine has answered `run` and, when it made one, the entity `container`),
\* "done" (it returned or raised `result`). `config` is the caller's object.
Callers == {1, 2}

Coroutine(pc, name, config, import_existing) ==
    [pc |-> pc, name |-> name, config |-> config, import_existing |-> import_existing,
     existing |-> FALSE, run |-> "", container |-> Entity(0, "", FALSE, 0, 0),
     result |-> ""]

NoCreating == [c \in Callers |-> Coroutine("idle", "", ContainerConfig(0, 0), FALSE)]

\* the coroutine of caller c comes to co, the gateway and the engine stay
Goes(c, co) ==
    /\ creating' = [creating EXCEPT ![c] = co]
    /\ UNCHANGED <<gatewayVars, proxy, ws, parser, tasks>>

\* create_container raises
Raises(c, result) == Goes(c, [creating[c] EXCEPT !.pc = "done", !.result = result])

\* the host port create_container resolves (0: _allocate_port raised)
ResolvedPort(g, original_port, list_err) ==
    IF original_port # 0
    THEN IF _check_port_conflict(g, original_port, list_err)
         THEN _allocate_port(g, original_port, list_err)
         ELSE original_port
    ELSE _allocate_port(g, 0, list_err)

\* create_container is called: the name check, up to the first await
CreateBegin(c, name, config, import_existing) ==
    /\ Ready
    /\ creating[c].pc = "idle"
    /\ \E check_err \in LookupErrs(name) :
         LET co == Coroutine("get", name, config, import_existing)
         IN IF _check_name_conflict(G, name, check_err) # "" /\ ~import_existing
            THEN Goes(c, [co EXCEPT !.pc = "done", !.result = "NameConflict"])
            ELSE Goes(c, co)

\* the worker thread of _get_container asks the engine
CreateGet(c) ==
    /\ creating[c].pc = "get"
    /\ \E get_err \in LookupErrs(creating[c].name) :
         Goes(c, [creating[c] EXCEPT !.pc = "got",
                                     !.existing = _get_container(creating[c].name, get_err)])

\* from the answer of the lookup to the second await: import, or the port
CreateAfterGet(c) ==
    LET co == creating[c]
        cid == FreshId(cfgHeap)
        g == [G EXCEPT !.cfgHeap = Put(@, cid, co.config)]
    IN
    /\ co.pc = "got"
    /\ IF co.existing
       THEN IF co.import_existing /\ co.name \in DOMAIN engine
            THEN LET g1 == _import_existing_container(g, co.name, cid)
                 IN /\ Commit(g1)
                    /\ creating' = [creating EXCEPT ![c].pc = "done", ![c].result = "ok",
                                                    ![c].config = g1.cfgHeap[cid]]
                    /\ UNCHANGED <<engine, os_bound, clock, phase, last, proxy, ws, parser, tasks>>
            ELSE Raises(c, "AlreadyExists")
       ELSE \E list_err \in ListErrs :
            LET host_port == ResolvedPort(G, co.config.host_port, list_err)
            IN IF host_port = 0 THEN Raises(c, "PortRangeExhausted")
               ELSE Goes(c, [co EXCEPT !.pc = "pull", !.config.host_port = host_port])

\* images.pull answers
CreatePull(c) ==
    /\ creating[c].pc = "pull"
    /\ \E pull \in {"ok", "ImageNotFound", "APIError"} :
         IF pull = "ok" THEN Goes(c, [creating[c] EXCEPT !.pc = "run"])
         ELSE Raises(c, IF pull = "ImageNotFound" THEN "ImagePullFailed"
                        ELSE "EngineAPIError")

\* the worker thread of containers.run asks the engine
CreateRun(c) ==
    LET co == creating[c] IN
    /\ co.pc = "run"
    /\ \E run \in RunOutcomes(co.name, co.config.host_port) :
         LET container == RunEntity(run, co.name, co.config, co.config.host_port)
         IN /\ engine' = IF run = "api_error" THEN engine ELSE Put(engine, co.name, container)
            /\ creating' = [creating EXCEPT ![c].pc = "ran", ![c].run = run,
                               ![c].container = IF run = "api_error" THEN @ ELSE container]
    /\ UNCHANGED <<containers, cfgHeap, stats, statsHeap, containers_file, stats_file,
                   container_info, os_bound, clock, phase, last, proxy, ws, parser, tasks>>

\* from the answer of containers.run to the end: reload, reconcile, persist,
\* track; or the except clauses
CreateAfterRun(c) ==
    LET co == creating[c]
        cid == FreshId(cfgHeap)
        g == [G EXCEPT !.cfgHeap = Put(@, cid, co.config)]
    IN
    /\ co.pc = "ran"
    /\ IF co.run \in {"api_error", "created_not_started"}
       THEN Raises(c, "EngineAPIError")
       ELSE \E reload_ok \in BOOLEAN :
            IF ~reload_ok THEN Raises(c, "EngineAPIError")
            ELSE LET g1 == CreateSucceeded(g, co.name, cid, co.container, clock + 1)
                 IN /\ Commit(g1)
                    /\ clock' = clock + 1
                    /\ creating' = [creating EXCEPT ![c].pc = "done", ![c].result = "ok",
                                                    ![c].config = g1.cfgHeap[cid]]
                    /\ UNCHANGED <<engine, os_bound, phase, last, proxy, ws, parser, tasks>>

\* start_container(name)
start_container(name) ==
    /\ Ready
    /\ \E get_err \in LookupErrs(name) :
         IF ~_get_container(name, get_err)
         THEN IF name \in DOMAIN containers
              THEN \* self.config.get_container(name) is the stored object itself
                   create_container(G, name, containers[name], TRUE, "start_container")
              ELSE Finish(G, engine, clock,
                          Call("start_container", name, FALSE, "False", {}, "", ""))
         ELSE
         LET container == engine[name]
             tracked == name \in DOMAIN container_info
             t == IF tracked THEN clock + 1 ELSE clock
             Track(g) ==
                IF tracked
                THEN [g EXCEPT !.container_info[name].status = "running",
                               !.statsHeap[g.container_info[name].stats].started_at = t]
                ELSE g
         IN (tracked => clock < MaxClock) /\
            IF container.status = "running"
            THEN Finish(Track(G), engine, t,
                        Call("start_container", name, FALSE, "True", {}, "", ""))
            ELSE \E start_ok \in (IF container.hport = 0 \/ is_port_available(container.hport)
                                 THEN BOOLEAN ELSE {FALSE}) :
                 IF start_ok
                 THEN Finish(Track(G), [engine EXCEPT ![name].status = "running"], t,
                             Call("start_container", name, FALSE, "True", {"start"}, "", ""))
                 ELSE Finish(G, engine, clock,
                             Call("start_container", name, FALSE, "False", {"start"}, "", ""))

\* ------------------------------------------- stop and endpoint resolution
\* stop_container(name, timeout)
stop_container(name) ==
    /\ Ready
    /\ \E get_err \in LookupErrs(name) :
         LET found == _get_container(name, get_err)
             Track(g) == IF name \in DOMAIN g.container_info
                         THEN [g EXCEPT !.container_info[name].status = "exited"]
                         ELSE g
         IN IF found /\ engine[name].status = "running"
            THEN \E stop_ok \in BOOLEAN :
                 IF stop_ok
                 THEN Finish(Track(G), [engine EXCEPT ![name].status = "exited"], clock,
                             Call("stop_container", name, FALSE, "True", {"stop"}, "", ""))
                 ELSE Finish(G, engine, clock,
                             Call("stop_container", name, FALSE, "False", {"stop"}, "", ""))
            ELSE Finish(Track(G), engine, clock,
                        Call("stop_container", name, FALSE, "True", {}, "", ""))

\* f"http://127.0.0.1:{port}" and f"http://{ip}:{internal_port}"
Url127(port) == <<"127.0.0.1", port>>
UrlIp(ip, internal_port) == <<ip, internal_port>>

\* IPAddress of the entity on the gateway's network and on another network
\* ("" when it is not attached or holds no address there)
GatewayIps == {"", "172.18.0.2"}
OtherIps == {"", "172.17.0.2"}

\* what containers.get(name) answered: `err` when it raised (NotFound or any
\* other error), else the addresses in attrs NetworkSettings.Networks
Answer(err, gw_ip, other_ip) == [err |-> err, gw_ip |-> gw_ip, other_ip |-> other_ip]

\* the answers the engine can give for `name`: a stopped entity holds no address
Answers(name) ==
    IF name \notin DOMAIN engine THEN {Answer(TRUE, "", "")}
    ELSE {Answer(TRUE, "", "")}
         \cup (IF engine[name].status = "running"
               THEN {Answer(FALSE, g, o) : g \in GatewayIps, o \in OtherIps}
               ELSE {Answer(FALSE, "", "")})

\* (variant: the cached URL is preferred to the entity's addresses)
ResolveUrl_CachedFirst(name, answer) ==
    LET tracked == name \in DOMAIN container_info
        config == IF tracked THEN cfgHeap[container_info[name].config]
                  ELSE cfgHeap[containers[name]]
        host_port == IF answer.err THEN 0
                     ELSE ReportedBinding(engine[name], config.internal_port)
    IN IF host_port # 0 THEN Url127(host_port)
       ELSE IF tracked /\ container_info[name].internal_url # <<>>
       THEN container_info[name].internal_url
       ELSE IF ~answer.err /\ answer.gw_ip # "" THEN UrlIp(answer.gw_ip, config.internal_port)
       ELSE IF ~answer.err /\ answer.other_ip # "" THEN UrlIp(answer.other_ip, config.internal_port)
       ELSE Url127(config.internal_port)

\* (variant: no URL when the engine lookup fails)
ResolveUrl_NoneOnError(name, answer) ==
    LET tracked == name \in DOMAIN container_info
        config == IF tracked THEN cfgHeap[container_info[name].config]
                  ELSE cfgHeap[containers[name]]
        host_port == ReportedBinding(engine[name], config.internal_port)
    IN IF answer.err THEN <<>>
       ELSE IF host_port # 0 THEN Url127(host_port)
       ELSE IF answer.gw_ip # "" THEN UrlIp(answer.gw_ip, config.internal_port)
       ELSE IF answer.other_ip # "" THEN UrlIp(answer.other_ip, config.internal_port)
       ELSE IF tracked /\ container_info[name].internal_url # <<>>
       THEN container_info[name].internal_url
       ELSE Url127(config.internal_port)

\* get_container_internal_url once info or config is found: the URL returned
ResolveUrl(name, answer) ==
    LET tracked == name \in DOMAIN container_info
        config == IF tracked THEN cfgHeap[container_info[name].config]
                  ELSE cfgHeap[containers[name]]
        host_port == IF answer.err THEN 0
                     ELSE ReportedBinding(engine[name], config.internal_port)
    IN IF host_port # 0 THEN Url127(host_port)
       ELSE IF ~answer.err /\ answer.gw_ip # "" THEN UrlIp(answer.gw_ip, config.internal_port)
       ELSE IF ~answer.err /\ answer.other_ip # "" THEN UrlIp(answer.other_ip, config.internal_port)
       ELSE IF tracked /\ container_info[name].internal_url # <<>>
       THEN container_info[name].internal_url
       ELSE Url127(config.internal_port)

\* get_container_internal_url(name)
get_container_internal_url(name) ==
    /\ Ready
    /\ IF name \notin DOMAIN container_info /\ name \notin DOMAIN containers
       THEN Finish(G, engine, clock,
                   Call("get_container_internal_url", name, FALSE, "None", {}, "", ""))
       ELSE \E answer \in Answers(name) :
            Finish(G, engine, clock,
                   [Call("get_container_internal_url", name, FALSE, "url", {}, "", "")
                        EXCEPT !.url = ResolveUrl(name, answer),
                               !.seen = Put(EmptyDict, name, answer)])

\* --------------------------------------------------------- health polling
\* container.attrs State.Health.Status, "unknown" when the entity has no Health
HealthValues == {"unknown", "healthy", "unhealthy"}

\* what one pass of the loop gets for a name: `err` when _get_container gave
\* None (the entity is absent or the lookup failed), else status and health
Report(err, status, health) == [err |-> err, status |-> status, health |-> health]

Reports(name) ==
    {Report(TRUE, "", "")}
    \cup (IF name \in DOMAIN engine
          THEN {Report(FALSE, engine[name].status, h) : h \in HealthValues}
          ELSE {})

\* (variant: the first name that cannot be polled ends the pass)
HealthPass_AbortOnError(g, reports) ==
    IF \E n \in DOMAIN reports : reports[n].err THEN g
    ELSE [g EXCEPT !.container_info =
            [n \in DOMAIN g.container_info |->
                [g.container_info[n] EXCEPT !.status = reports[n].status,
                                            !.health_status = reports[n].health]]]

\* the for loop of _check_all_containers_health over the tracked names
HealthPass(g, reports) ==
    [g EXCEPT !.container_info =
        [n \in DOMAIN g.container_info |->
            IF reports[n].err THEN g.container_info[n]
            ELSE [g.container_info[n] EXCEPT !.status = reports[n].status,
                                            !.health_status = reports[n].health]]]

\* one tick of _health_check_loop: the task runs from initialize to cleanup
_check_all_containers_health ==
    /\ Ready
    /\ \E reports \in [DOMAIN container_info -> UNION {Reports(n) : n \in Names}] :
         /\ \A n \in DOMAIN container_info : reports[n] \in Reports(n)
         /\ Finish(HealthPass(G, reports), engine, clock,
                   [Call("_check_all_containers_health", "", FALSE, "ok", {}, "", "")
                        EXCEPT !.seen = reports])

\* cleanup(): the health task is cancelled and awaited, then save_all()
cleanup ==
    /\ Ready
    /\ Commit(_save_stats(_save_containers(G)))
    /\ phase' = "closed"
    /\ last' = Call("cleanup", "", FALSE, "ok", {}, "", "")
    /\ UNCHANGED <<engine, os_bound, clock, trafficVars>>

\* ---- the health task and the shutdown as coroutines
\* The task of _health_check_loop is at `pc`: "sleep" (awaiting asyncio.sleep),
\* "get" (in a pass, awaiting _get_container(name)), "got" (the lookup has
\* answered `report`, the task has not run yet), "ended". `todo` are the names
\* the pass has still to visit; `cancelled`: task.cancel() was called and the
\* CancelledError is not yet delivered; `ended_at`: where the task was when it
\* got it. The shutdown of lifespan is at `pc`: "idle", "await_task"
\* (cleanup awaits the cancelled task), "cleanup_proxy" (lifespan awaits
\* cleanup_proxy), "done"; `steps` are the steps it has made, in order.
HealthTask(pc, name, todo) ==
    [pc |-> pc, name |-> name, todo |-> todo, report |-> Report(TRUE, "", ""),
     cancelled |-> FALSE, ended_at |-> ""]

\* remove_container, start_container, stop_container and restart_container
\* give the event loop away at _get_container and at their engine call (and
\* start_container at the create_container it awaits). The call of caller c
\* is at `pc`: "idle", "get" (awaiting _get_container), "got" (the lookup has
\* answered `found`, with the id and the status of the entity it read),
\* "engine" (awaiting container.remove / start / stop / restart), "engined"
\* (the engine has answered `ok`), "create" (awaiting create_container),
\* "done" (it returned `result`).
Operation(kind, pc, name) ==
    [kind |-> kind, pc |-> pc, name |-> name, found |-> FALSE, id |-> 0,
     status |-> "", ok |-> FALSE, result |-> ""]

NoOperation == Operation("", "idle", "")

NoTasks ==
    [health |-> HealthTask("sleep", "", {}), cleanup |-> [pc |-> "idle", steps |-> <<>>],
     op |-> [c \in Callers |-> NoOperation]]

TaskGoes(t) ==
    /\ tasks' = t
    /\ UNCHANGED <<gatewayVars, proxy, ws, parser, creating>>

\* asyncio.sleep returns and a pass starts over list(self._container_info.keys());
\* with no name tracked the pass ends at once and the task sleeps again
HealthWake ==
    /\ phase = "ready"
    /\ tasks.health.pc = "sleep" /\ ~tasks.health.cancelled
    /\ \E name \in DOMAIN container_info :
         TaskGoes([tasks EXCEPT !.health =
                      HealthTask("get", name, DOMAIN container_info \ {name})])

\* the worker thread of _get_container asks the engine
HealthGet ==
    /\ tasks.health.pc = "get" /\ ~tasks.health.cancelled
    /\ \E report \in Reports(tasks.health.name) :
         TaskGoes([tasks EXCEPT !.health.pc = "got", !.health.report = report])

\* the task runs with the answer: the update of the name when it is still
\* tracked, then the next name of the pass or the next sleep
HealthApply ==
    LET h == tasks.health
        g == IF h.report.err \/ h.name \notin DOMAIN container_info THEN G
             ELSE [G EXCEPT !.container_info[h.name].status = h.report.status,
                            !.container_info[h.name].health_status = h.report.health]
    IN
    /\ h.pc = "got" /\ ~h.cancelled
    /\ Commit(g)
    /\ \E name \in (IF h.todo = {} THEN {""} ELSE h.todo) :
         tasks' = [tasks EXCEPT !.health =
                      IF name = "" THEN HealthTask("sleep", "", {})
                      ELSE HealthTask("get", name, h.todo \ {name})]
    /\ UNCHANGED <<engine, os_bound, clock, phase, last, proxy, ws, parser, creating>>

\* the CancelledError reaches the task at the await it is in: no except clause
\* of the pass or of _get_container catches it, `except asyncio.CancelledError:
\* break` ends the loop, and the task is done without an exception
HealthCancelled ==
    /\ tasks.health.cancelled /\ tasks.health.pc # "ended"
    /\ TaskGoes([tasks EXCEPT !.health.pc = "ended", !.health.cancelled = FALSE,
                              !.health.ended_at = tasks.health.pc])

\* lifespan leaves its yield and calls cleanup(): the task is cancelled, and
\* cleanup awaits it
CleanupCancel ==
    /\ Ready
    /\ tasks.cleanup.pc = "idle"
    /\ TaskGoes([tasks EXCEPT !.health.cancelled = TRUE,
                              !.cleanup = [pc |-> "await_task", steps |-> <<"cancel">>]])

\* (variant: cleanup does not await the task it has cancelled)
CleanupFlush_NoAwait ==
    /\ tasks.cleanup.pc = "await_task"
    /\ Commit(_save_stats(_save_containers(G)))
    /\ phase' = "closed"
    /\ tasks' = [tasks EXCEPT !.cleanup =
                    [pc |-> "cleanup_proxy",
                     steps |-> tasks.cleanup.steps \o <<"task_ended", "save_all", "client.close">>]]
    /\ UNCHANGED <<engine, os_bound, clock, last, proxy, ws, parser, creating>>

\* the task has ended and cleanup goes on to its end: save_all(), then
\* self._client.close(); lifespan then awaits cleanup_proxy()
CleanupFlush ==
    /\ tasks.cleanup.pc = "await_task"
    /\ tasks.health.pc = "ended"
    /\ Commit(_save_stats(_save_containers(G)))
    /\ phase' = "closed"
    /\ tasks' = [tasks EXCEPT !.cleanup =
                    [pc |-> "cleanup_proxy",
                     steps |-> tasks.cleanup.steps \o <<"task_ended", "save_all", "client.close">>]]
    /\ UNCHANGED <<engine, os_bound, clock, last, proxy, ws, parser, creating>>

\* cleanup_proxy(): the outbound HTTP client is closed
CleanupProxy ==
    /\ tasks.cleanup.pc = "cleanup_proxy"
    /\ TaskGoes([tasks EXCEPT !.cleanup =
                    [pc |-> "done", steps |-> tasks.cleanup.steps \o <<"aclose">>]])

\* ---- the lifecycle operations as coroutines
OpKinds == {"remove_container", "start_container", "stop_container", "restart_container"}

OpGoes(c, o) == TaskGoes([tasks EXCEPT !.op[c] = o])

OpBegin(c, kind, name) ==
    /\ Ready
    /\ tasks.op[c].pc = "idle" /\ creating[c].pc = "idle"
    /\ OpGoes(c, Operation(kind, "get", name))

\* the worker thread of _get_container asks the engine
OpGet(c) ==
    LET o == tasks.op[c] IN
    /\ o.pc = "get"
    /\ \E get_err \in LookupErrs(o.name) :
         LET found == _get_container(o.name, get_err)
         IN OpGoes(c, [o EXCEPT !.pc = "got", !.found = found,
                                !.id = IF found THEN engine[o.name].id ELSE 0,
                                !.status = IF found THEN engine[o.name].status ELSE ""])

\* (variant: remove_container leaves the ContainerInfo in place)
Untrack_Never(g, name) == g

\* del self._container_info[name], when the name is tracked
Untrack(g, name) == [g EXCEPT !.container_info = Del(@, name)]

\* the status an operation writes into the ContainerInfo of a tracked name;
\* "running" comes with stats.started_at = datetime.now()
Tracked(g, name, status, t) ==
    IF name \notin DOMAIN g.container_info THEN g
    ELSE IF status = "running"
    THEN [g EXCEPT !.container_info[name].status = status,
                   !.statsHeap[g.container_info[name].stats].started_at = t]
    ELSE [g EXCEPT !.container_info[name].status = status]

\* what an operation does with the stores once the engine has done its part
OpSettled(g, kind, name, t) ==
    CASE kind = "remove_container" -> Untrack(config_remove_container(g, name), name)
      [] kind = "stop_container" -> Tracked(g, name, "exited", t)
      [] OTHER -> Tracked(g, name, "running", t)

\* from the answer of the lookup to the next await or to the return
OpAfterGet(c) ==
    LET o == tasks.op[c]
        t == clock + 1
        call_engine == CASE o.kind = "remove_container" -> o.found
                         [] o.kind = "start_container" -> o.found /\ o.status # "running"
                         [] o.kind = "stop_container" -> o.found /\ o.status = "running"
                         [] OTHER -> o.found
        call_create == o.kind = "start_container" /\ ~o.found /\ o.name \in DOMAIN containers
        returns_false == ~o.found /\ o.kind \in {"start_container", "restart_container"}
    IN
    /\ o.pc = "got"
    /\ IF call_engine
       THEN /\ tasks' = [tasks EXCEPT !.op[c].pc = "engine"]
            /\ UNCHANGED <<gatewayVars, creating>>
       ELSE IF call_create
       THEN \* create_container(config) with the stored config, up to its first await
            /\ tasks' = [tasks EXCEPT !.op[c].pc = "create"]
            /\ creating' = [creating EXCEPT ![c] =
                               Coroutine("get", o.name, cfgHeap[containers[o.name]], TRUE)]
            /\ UNCHANGED gatewayVars
       ELSE IF returns_false
       THEN /\ tasks' = [tasks EXCEPT !.op[c].pc = "done", !.op[c].result = "False"]
            /\ UNCHANGED <<gatewayVars, creating>>
       ELSE /\ Commit(OpSettled(G, o.kind, o.name, t))
            /\ clock' = t
            /\ tasks' = [tasks EXCEPT !.op[c].pc = "done", !.op[c].result = "True"]
            /\ UNCHANGED <<engine, os_bound, phase, last, creating>>
    /\ UNCHANGED <<proxy, ws, parser>>

\* the worker thread makes the engine call on the entity the lookup returned:
\* it fails when that entity is gone, and a start needs the entity's port
OpEngine(c) ==
    LET o == tasks.op[c]
        there == o.name \in DOMAIN engine /\ engine[o.name].id = o.id
        needs_port == /\ o.kind \in {"start_container", "restart_container"}
                      /\ there /\ engine[o.name].status # "running"
                      /\ engine[o.name].hport # 0
                      /\ ~is_port_available(engine[o.name].hport)
    IN
    /\ o.pc = "engine"
    /\ \E ok \in (IF there /\ ~needs_port THEN BOOLEAN ELSE {FALSE}) :
         /\ engine' = IF ~ok THEN engine
                       ELSE CASE o.kind = "remove_container" -> Del(engine, o.name)
                              [] o.kind = "stop_container" ->
                                    [engine EXCEPT ![o.name].status = "exited"]
                              [] OTHER -> [engine EXCEPT ![o.name].status = "running"]
         /\ tasks' = [tasks EXCEPT !.op[c].pc = "engined", !.op[c].ok = ok]
    /\ UNCHANGED <<containers, cfgHeap, stats, statsHeap, containers_file, stats_file,
                   container_info, os_bound, clock, phase, last, proxy, ws, parser, creating>>

\* from the answer of the engine to the return: the stores are updated, or
\* the except clause returns False
OpAfterEngine(c) ==
    LET o == tasks.op[c]
        t == clock + 1
    IN
    /\ o.pc = "engined"
    /\ IF o.ok
       THEN /\ Commit(OpSettled(G, o.kind, o.name, t))
            /\ clock' = t
            /\ tasks' = [tasks EXCEPT !.op[c].pc = "done", !.op[c].result = "True"]
            /\ UNCHANGED <<engine, os_bound, phase, last, proxy, ws, parser, creating>>
       ELSE OpGoes(c, [o EXCEPT !.pc = "done", !.result = "False"])

\* the create_container that start_container awaits has returned or raised
OpAfterCreate(c) ==
    /\ tasks.op[c].pc = "create" /\ creating[c].pc = "done"
    /\ OpGoes(c, [tasks.op[c] EXCEPT !.pc = "done",
                                     !.result = StartResult(creating[c].result)])

\* ------------------------------------------------------- docker_parser.py
\* A string is the sequence of its characters; None is a value no string equals.
None == <<"None">>

StartsWith(s, prefix) ==
    Len(s) >= Len(prefix) /\ SubSeq(s, 1, Len(prefix)) = prefix

EndsWith(s, suffix) ==
    Len(s) >= Len(suffix) /\ SubSeq(s, Len(s) - Len(suffix) + 1, Len(s)) = suffix

\* the only member of a set of one member; {e : x \in {v}} is e with x bound
\* to the value v
Only(S) == CHOOSE x \in S : TRUE

\* the places of c in s
Places(s, c) == {i \in 1 .. Len(s) : s[i] = c}

\* the index of the first c in s, 0 when there is none
Find(s, c) == IF Places(s, c) = {} THEN 0 ELSE Min(Places(s, c))

\* s.split(c, 1): <<s>> when c is not in s
SplitOnce(s, c) ==
    Only({IF k = 0 THEN <<s>> ELSE <<SubSeq(s, 1, k - 1), SubSeq(s, k + 1, Len(s))>> :
            k \in {Find(s, c)}})

\* the n-th member of a set of numbers, counted from the least
Nth(S, n) == CHOOSE x \in S : Cardinality({y \in S : y < x}) = n - 1

\* s.split(c): the parts between the places of c
Split(s, c) ==
    Only({[n \in 1 .. Cardinality(P) + 1 |->
              SubSeq(s, Nth(P \cup {0}, n) + 1, Nth(P \cup {Len(s) + 1}, n) - 1)] :
            P \in {Places(s, c)}})

\* s.replace(c, d) for single characters
Replace(s, c, d) == [i \in 1 .. Len(s) |-> IF s[i] = c THEN d ELSE s[i]]

\* s.strip(): the only white space of this model is the blank
Strip(s) ==
    Only({IF B = {} THEN <<>> ELSE SubSeq(s, Min(B), Nth(B, Cardinality(B))) :
            B \in {{i \in 1 .. Len(s) : s[i] # " "}}})

Digits == {"0", "1", "2", "3", "4", "5", "6", "7", "8", "9"}

DigitValue(c) ==
    CASE c = "0" -> 0 [] c = "1" -> 1 [] c = "2" -> 2 [] c = "3" -> 3 [] c = "4" -> 4
      [] c = "5" -> 5 [] c = "6" -> 6 [] c = "7" -> 7 [] c = "8" -> 8 [] c = "9" -> 9

\* int(s) succeeds (of the forms int() takes, only plain digits occur here)
IsInt(s) == s # <<>> /\ \A i \in 1 .. Len(s) : s[i] \in Digits

\* the number the first n digits of s spell
RECURSIVE Number(_, _)
Number(s, n) == IF n = 0 THEN 0 ELSE 10 * Number(s, n - 1) + DigitValue(s[n])

ToInt(s) == Number(s, Len(s))

\* ParsedDockerRun(); `error` is "" until the parse raises ValueError, and then
\* says where. raw_command is not kept.
ParsedDockerRun ==
    [image |-> <<>>, name |-> None, ports |-> <<>>, env |-> EmptyDict, volumes |-> <<>>,
     restart_policy |-> None, detach |-> FALSE, interactive |-> FALSE, tty |-> FALSE,
     network |-> None, labels |-> EmptyDict, memory |-> None, cpus |-> None,
     extra_args |-> <<>>, error |-> ""]

\* _parse_port_mapping(mapping): <<host_port, container_port>>, or << >> for None
_parse_port_mapping(mapping) ==
    LET m == IF EndsWith(mapping, <<"/", "t", "c", "p">>) \/ EndsWith(mapping, <<"/", "u", "d", "p">>)
             THEN SubSeq(mapping, 1, Len(mapping) - 4) ELSE mapping
    IN Only({IF Len(parts) = 2
             THEN IF IsInt(parts[1]) /\ IsInt(parts[2])
                  THEN <<ToInt(parts[1]), ToInt(parts[2])>> ELSE <<>>
             ELSE IF Len(parts) = 3
             THEN IF IsInt(parts[2]) /\ IsInt(parts[3])
                  THEN <<ToInt(parts[2]), ToInt(parts[3])>> ELSE <<>>
             ELSE <<>> :
                parts \in {Split(m, ":")}})

\* _parse_env giving no key for an assignment without '='
_parse_env_BareDropped(env_str) ==
    IF Find(env_str, "=") # 0
    THEN Only({<<Strip(kv[1]), Strip(kv[2])>> : kv \in {SplitOnce(env_str, "=")}})
    ELSE <<<<>>, <<>>>>

\* _parse_env(env_str): <<key, value>>
_parse_env(env_str) ==
    IF Find(env_str, "=") # 0
    THEN Only({<<Strip(kv[1]), Strip(kv[2])>> : kv \in {SplitOnce(env_str, "=")}})
    ELSE <<Strip(env_str), <<>>>>

\* result.ports.append(parsed_port) when the mapping parses
AddPort(result, port_mapping) ==
    Only({IF parsed_port # <<>> THEN [result EXCEPT !.ports = Append(@, parsed_port)]
          ELSE result :
            parsed_port \in {_parse_port_mapping(port_mapping)}})

\* d[key] = value when the key is not empty
AddPair(d, env_str) ==
    Only({IF kv[1] # <<>> THEN Put(d, kv[1], kv[2]) ELSE d : kv \in {_parse_env(env_str)}})

\* the loop over the characters of a token of bundled short flags
Bundle(result, flags) ==
    [result EXCEPT !.detach = @ \/ \E k \in 1 .. Len(flags) : flags[k] = "d",
                   !.interactive = @ \/ \E k \in 1 .. Len(flags) : flags[k] = "i",
                   !.tty = @ \/ \E k \in 1 .. Len(flags) : flags[k] = "t"]

\* the flag spellings parse_docker_run compares tokens with, by the name of
\* the spelling
Flag ==
    [d |-> <<"-", "d">>,
     detach |-> <<"-", "-", "d", "e", "t", "a", "c", "h">>,
     i |-> <<"-", "i">>,
     interactive |-> <<"-", "-", "i", "n", "t", "e", "r", "a", "c", "t", "i", "v", "e">>,
     t |-> <<"-", "t">>,
     tty |-> <<"-", "-", "t", "t", "y">>,
     name |-> <<"-", "-", "n", "a", "m", "e">>,
     p |-> <<"-", "p">>,
     publish |-> <<"-", "-", "p", "u", "b", "l", "i", "s", "h">>,
     e |-> <<"-", "e">>,
     env |-> <<"-", "-", "e", "n", "v">>,
     v |-> <<"-", "v">>,
     volume |-> <<"-", "-", "v", "o", "l", "u", "m", "e">>,
     restart |-> <<"-", "-", "r", "e", "s", "t", "a", "r", "t">>,
     network |-> <<"-", "-", "n", "e", "t", "w", "o", "r", "k">>,
     l |-> <<"-", "l">>,
     label |-> <<"-", "-", "l", "a", "b", "e", "l">>,
     m |-> <<"-", "m">>,
     memory |-> <<"-", "-", "m", "e", "m", "o", "r", "y">>,
     cpus |-> <<"-", "-", "c", "p", "u", "s">>]

\* the program names parse_docker_run skips
docker == <<"d", "o", "c", "k", "e", "r">>
run == <<"r", "u", "n">>

\* token.startswith(flag + '=')
HasValue(token, flag) == StartsWith(token, flag \o <<"=">>)

\* token.split('=', 1)[1]
ValueOf(token) == SplitOnce(token, "=")[2]

\* `continue` with the index of the next token to look at
Continue(i, result) == [i |-> i, result |-> result]

\* one turn of the loop of parse_docker_run for a token i that starts with '-'
\* (tokens are numbered from 1)
ScanFlag(tokens, i, result) ==
    LET token == tokens[i]
        more == i + 1 <= Len(tokens)
        next == tokens[i + 1]
        after == IF more THEN i + 2 ELSE i + 1
    IN
    IF token \in {Flag.d, Flag.detach}
    THEN Continue(i + 1, [result EXCEPT !.detach = TRUE])
    ELSE IF token \in {Flag.i, Flag.interactive}
    THEN Continue(i + 1, [result EXCEPT !.interactive = TRUE])
    ELSE IF token \in {Flag.t, Flag.tty}
    THEN Continue(i + 1, [result EXCEPT !.tty = TRUE])
    ELSE IF StartsWith(token, <<"-">>) /\ ~StartsWith(token, <<"-", "-">>) /\ Len(token) > 2
    THEN Continue(i + 1, Bundle(result, Tail(token)))
    ELSE IF token = Flag.name
    THEN Continue(after, IF more THEN [result EXCEPT !.name = next] ELSE result)
    ELSE IF HasValue(token, Flag.name)
    THEN Continue(i + 1, [result EXCEPT !.name = ValueOf(token)])
    ELSE IF token \in {Flag.p, Flag.publish}
    THEN Continue(after, IF more THEN AddPort(result, next) ELSE result)
    ELSE IF HasValue(token, Flag.p) \/ HasValue(token, Flag.publish)
    THEN Continue(i + 1, AddPort(result, ValueOf(token)))
    ELSE IF token \in {Flag.e, Flag.env}
    THEN Continue(after,
                    IF more THEN [result EXCEPT !.env = AddPair(@, next)] ELSE result)
    ELSE IF HasValue(token, Flag.e) \/ HasValue(token, Flag.env)
    THEN Continue(i + 1, [result EXCEPT !.env = AddPair(@, ValueOf(token))])
    ELSE IF token \in {Flag.v, Flag.volume}
    THEN Continue(after,
                    IF more THEN [result EXCEPT !.volumes = Append(@, next)] ELSE result)
    ELSE IF HasValue(token, Flag.v) \/ HasValue(token, Flag.volume)
    THEN Continue(i + 1, [result EXCEPT !.volumes = Append(@, ValueOf(token))])
    ELSE IF token = Flag.restart
    THEN Continue(after,
                    IF more THEN [result EXCEPT !.restart_policy = next] ELSE result)
    ELSE IF HasValue(token, Flag.restart)
    THEN Continue(i + 1, [result EXCEPT !.restart_policy = ValueOf(token)])
    ELSE IF token = Flag.network
    THEN Continue(after, IF more THEN [result EXCEPT !.network = next] ELSE result)
    ELSE IF HasValue(token, Flag.network)
    THEN Continue(i + 1, [result EXCEPT !.network = ValueOf(token)])
    ELSE IF token \in {Flag.l, Flag.label}
    THEN Continue(after,
                    IF more THEN [result EXCEPT !.labels = AddPair(@, next)] ELSE result)
    ELSE IF HasValue(token, Flag.l) \/ HasValue(token, Flag.label)
    THEN Continue(i + 1, [result EXCEPT !.labels = AddPair(@, ValueOf(token))])
    ELSE IF token \in {Flag.m, Flag.memory}
    THEN Continue(after, IF more THEN [result EXCEPT !.memory = next] ELSE result)
    ELSE IF HasValue(token, Flag.m) \/ HasValue(token, Flag.memory)
    THEN Continue(i + 1, [result EXCEPT !.memory = ValueOf(token)])
    ELSE IF token = Flag.cpus
    THEN Continue(after, IF more THEN [result EXCEPT !.cpus = next] ELSE result)
    ELSE IF HasValue(token, Flag.cpus)
    THEN Continue(i + 1, [result EXCEPT !.cpus = ValueOf(token)])
    ELSE Continue(i + 1, result)

\* the loop of parse_docker_run from token i on: the first token that does not
\* start with '-' is the image and ends the loop
RECURSIVE ScanTokens(_, _, _)
ScanTokens(tokens, i, result) ==
    IF i > Len(tokens) THEN result
    ELSE IF ~StartsWith(tokens[i], <<"-">>)
    THEN [result EXCEPT !.image = tokens[i],
                        !.extra_args = SubSeq(tokens, i + 1, Len(tokens))]
    ELSE Only({ScanTokens(tokens, turn.i, turn.result) :
                  turn \in {ScanFlag(tokens, i, result)}})

\* the index of the first token that is neither "docker" nor "run"
RECURSIVE SkipProgram(_, _)
SkipProgram(tokens, i) ==
    IF i <= Len(tokens) /\ tokens[i] \in {docker, run} THEN SkipProgram(tokens, i + 1) ELSE i

\* parse_docker_run without the check of the required field
parse_docker_run_NoImageCheck(split_ok, tokens) ==
    IF ~split_ok THEN [ParsedDockerRun EXCEPT !.error = "split"]
    ELSE IF tokens = <<>> THEN [ParsedDockerRun EXCEPT !.error = "empty"]
    ELSE ScanTokens(tokens, SkipProgram(tokens, 1), ParsedDockerRun)

\* parse_docker_run(command). shlex.split(cleaned) either raises (`split_ok`
\* false: a quotation is left open) or gives `tokens`.
parse_docker_run(split_ok, tokens) ==
    IF ~split_ok THEN [ParsedDockerRun EXCEPT !.error = "split"]
    ELSE IF tokens = <<>> THEN [ParsedDockerRun EXCEPT !.error = "empty"]
    ELSE LET result == ScanTokens(tokens, SkipProgram(tokens, 1), ParsedDockerRun)
         IN IF result.image = <<>> THEN [ParsedDockerRun EXCEPT !.error = "no_image"]
            ELSE result

\* float(s) succeeds (of the forms float() takes, only digits with at most one
\* point occur here)
IsFloat(s) ==
    LET parts == Split(s, ".")
    IN /\ Len(parts) \in {1, 2}
       /\ \A k \in 1 .. Len(parts) : \A i \in 1 .. Len(parts[k]) : parts[k][i] \in Digits
       /\ \E k \in 1 .. Len(parts) : parts[k] # <<>>

\* the digits of a fraction without its trailing zeros
TrimZeros(s) ==
    Only({IF N = {} THEN <<>> ELSE SubSeq(s, 1, Nth(N, Cardinality(N))) :
            N \in {{i \in 1 .. Len(s) : s[i] # "0"}}})

\* float(s): the whole part and the digits of the fraction
Float(s) ==
    LET parts == Split(s, ".")
    IN <<ToInt(parts[1]), IF Len(parts) = 2 THEN TrimZeros(parts[2]) ELSE <<>>>>

\* the ContainerConfig parse_docker_command builds from what parse_docker_run
\* returned (host_port 0: None; cpu_limit << >>: None); `error` as in
\* ParsedDockerRun
ConfigOf(parsed) ==
    LET segments == Split(parsed.image, "/")
        image_name == Split(segments[Len(segments)], ":")[1]
        name == IF parsed.name \notin {None, <<>>} THEN parsed.name
                ELSE Replace(Replace(image_name, ".", "-"), "_", "-")
        mapped == parsed.ports # <<>>
    IN IF parsed.error # ""
       THEN [name |-> <<>>, image |-> <<>>, internal_port |-> 0, host_port |-> 0,
             env |-> EmptyDict, restart_policy |-> <<>>, labels |-> EmptyDict,
             memory_limit |-> None, cpu_limit |-> <<>>, error |-> parsed.error]
       ELSE [name |-> name, image |-> parsed.image,
             internal_port |-> IF mapped THEN parsed.ports[1][2] ELSE DefaultInternalPort,
             host_port |-> IF mapped THEN parsed.ports[1][1] ELSE 0,
             env |-> parsed.env,
             restart_policy |-> IF parsed.restart_policy \notin {None, <<>>}
                                THEN parsed.restart_policy ELSE <<"a", "l", "w", "a", "y", "s">>,
             labels |-> parsed.labels,
             memory_limit |-> parsed.memory,
             cpu_limit |-> IF parsed.cpus \notin {None, <<>>} /\ IsFloat(parsed.cpus)
                           THEN Float(parsed.cpus) ELSE <<>>,
             error |-> ""]

\* parse_docker_command(command)
parse_docker_command(split_ok, tokens) ==
    Only({ConfigOf(parsed) : parsed \in {parse_docker_run(split_ok, tokens)}})

\* parse_docker_command as the handlers call it: `pc` is "idle" or "done",
\* `parsed` what parse_docker_run gave and `config` what the call returned
ParseState(pc, split_ok, tokens) ==
    Only({[pc |-> pc, split_ok |-> split_ok, tokens |-> tokens,
           parsed |-> parsed, config |-> ConfigOf(parsed)] :
            parsed \in {parse_docker_run(split_ok, tokens)}})

\* no command was given yet
NoParse == [ParseState("idle", TRUE, <<>>) EXCEPT !.parsed = ParsedDockerRun,
                                                  !.config.error = ""]

\* ---- the commands given to the parser
\* all sequences of at most n members of S
SeqsUpTo(S, n) == UNION {[1 .. k -> S] : k \in 0 .. n}

\* the concatenation of a sequence of sequences
RECURSIVE Flatten(_)
Flatten(ss) == IF ss = <<>> THEN <<>> ELSE Head(ss) \o Flatten(Tail(ss))

\* any tokens: program names, flags with and without values, an image, an
\* empty word (as `""` gives)
AnyTokens == {docker, run, Flag.d, Flag.name, Flag.p, <<"8", "0", "8", "0", ":", "8", "0">>, <<"i", "m", "g">>, <<>>, <<"-", "-", "r", "m">>,
              <<"-", "-", "n", "a", "m", "e", "=", "f", "o", "o">>, <<"-", "i", "t">>}
AnyCommands == SeqsUpTo(AnyTokens, MaxTokens)

\* commands `run [--name N] {-p H:C} {-e K[=V]} IMAGE`, each part with what it
\* stands for
ShapeNames == {None, <<"f", "o", "o">>}
ShapePorts == {[token |-> <<"8", "0", "8", "0", ":", "8", "0">>, host |-> 8080, container |-> 80],
               [token |-> <<"1", "8", "1", "0", "0", ":", "8", "0", "8", "1">>, host |-> 18100, container |-> 8081]}
ShapeEnvs == {[token |-> <<"A", "=", "1">>, key |-> <<"A">>, value |-> <<"1">>],
              [token |-> <<"B", "A", "R", "E">>, key |-> <<"B", "A", "R", "E">>, value |-> <<>>],
              [token |-> <<"B", "=", "x", "=", "y">>, key |-> <<"B">>, value |-> <<"x", "=", "y">>]}
ShapeImages == {[token |-> <<"m", "y", "i", "m", "g", ":", "t", "a", "g">>, derived |-> <<"m", "y", "i", "m", "g">>],
                [token |-> <<"r", "e", "g", "/", "m", "y", "_", "i", "m", "g", ".", "v", "2", ":", "t", "a", "g">>, derived |-> <<"m", "y", "-", "i", "m", "g", "-", "v", "2">>]}
ShapeTokens(n, ps, es, image) ==
    <<run>> \o (IF n = None THEN <<>> ELSE <<Flag.name, n>>)
            \o Flatten([i \in 1 .. Len(ps) |-> <<Flag.p, ps[i].token>>])
            \o Flatten([i \in 1 .. Len(es) |-> <<Flag.e, es[i].token>>])
            \o <<image.token>>
DistinctKeys(es) == \A i, j \in 1 .. Len(es) : es[i].key = es[j].key => i = j
ShapeCommands ==
    {ShapeTokens(n, ps, es, image) :
        n \in ShapeNames, ps \in SeqsUpTo(ShapePorts, MaxFlags),
        es \in {x \in SeqsUpTo(ShapeEnvs, MaxFlags) : DistinctKeys(x)},
        image \in ShapeImages}

\* commands with program names, options of every kind, an image and arguments
\* of the workload
ScanPrograms == {<<>>, <<run>>, <<docker, run>>}
ScanOptions == {<<Flag.d>>, <<<<"-", "i", "t">>>>, <<Flag.name, <<"f", "o", "o">>>>, <<Flag.name, <<"-", "-", "r", "m">>>>,
                <<Flag.p, <<"8", "0", "8", "0", ":", "8", "0">>>>, <<Flag.e, <<"A", "=", "1">>>>, <<Flag.memory, <<"5", "1", "2", "m">>>>,
                <<<<"-", "-", "n", "a", "m", "e", "=", "f", "o", "o">>>>, <<<<"-", "-", "r", "m">>>>, <<<<"-", "x">>>>, <<<<"-", "-", "f", "o", "o", "=", "b", "a", "r">>>>, <<<<"-", "u", "=", "r", "o", "o", "t">>>>}
ScanArguments == {Flag.name, <<"f", "o", "o">>, Flag.p, <<"8", "0", "8", "0", ":", "8", "0">>, Flag.d, <<"s", "e", "r", "v", "e">>}
ScanCommands ==
    {program \o Flatten(options) \o <<<<"i", "m", "g">>>> \o arguments :
        program \in ScanPrograms, options \in SeqsUpTo(ScanOptions, MaxFlags),
        arguments \in SeqsUpTo(ScanArguments, MaxFlags)}

\* commands with one value-taking flag, or one token of bundled switches
ValueFlagSpellings == {Flag.name, Flag.p, Flag.publish, Flag.e, Flag.env, Flag.v, Flag.volume, Flag.restart,
                       Flag.network, Flag.l, Flag.label, Flag.m, Flag.memory, Flag.cpus}
FlagValues == {<<"f", "o", "o">>, <<"8", "0", "8", "0", ":", "8", "0">>, <<"A", "=", "1">>, <<"1", ".", "5">>}
BundledSwitches == {<<"-", "d", "i", "t">>, <<"-", "i", "t">>, <<"-", "d", "i">>, <<"-", "t", "d">>}
FlagCommands ==
    {<<run, flag, value, <<"i", "m", "g">>>> : flag \in ValueFlagSpellings, value \in FlagValues}
    \cup {<<run, flag \o <<"=">> \o value, <<"i", "m", "g">>>> :
            flag \in ValueFlagSpellings, value \in FlagValues}
    \cup {<<run, bundle, <<"i", "m", "g">>>> : bundle \in BundledSwitches}

\* parse_docker_command(command) is called
ParseCommand(Commands) ==
    /\ parser.pc = "idle"
    /\ \/ parser' = ParseState("done", FALSE, <<>>)
       \/ \E tokens \in Commands : parser' = ParseState("done", TRUE, tokens)
    /\ UNCHANGED <<gatewayVars, proxy, ws, creating, tasks>>

\* the caller takes the configuration, or the ValueError
ParseReturn ==
    /\ parser.pc = "done"
    /\ parser' = NoParse
    /\ UNCHANGED <<gatewayVars, proxy, ws, creating, tasks>>

\* ------------------------------------------------------ proxy.py (ProxyClient)
\* status codes of upstream responses
UpstreamStatuses == {200, 404}

\* header names as requests and responses may spell them
RequestHeaderNames == {"Host", "te", "x-api-key"}
ResponseHeaderNames == {"Connection", "transfer-encoding", "content-encoding", "x-trace"}

\* str.lower() on the header names above
Lower(k) ==
    CASE k = "Host" -> "host"
      [] k = "Connection" -> "connection"
      [] OTHER -> k

hop_by_hop == {"connection", "keep-alive", "proxy-authenticate", "proxy-authorization",
               "te", "trailers", "transfer-encoding", "upgrade", "host"}

\* the headers of the request sent upstream
RequestHeaders(hs) == {k \in hs : Lower(k) \notin hop_by_hop}

\* the headers of a buffered response
ResponseHeaders(hs) ==
    {k \in hs : Lower(k) \notin hop_by_hop /\ Lower(k) # "content-encoding"}

\* the headers of an event-stream response
SseHeaders(hs) == {k \in hs : Lower(k) \notin {"transfer-encoding", "content-encoding"}}

\* proxy_request(request, target_url) is called
ProxyRequest ==
    /\ proxy.pc = "idle"
    /\ \E hs \in SUBSET RequestHeaderNames :
         proxy' = [proxy EXCEPT !.pc = "body", !.request_headers = hs,
                                !.headers = RequestHeaders(hs)]
    /\ UNCHANGED <<gatewayVars, ws, parser, creating, tasks>>

\* body = await request.body(), before the try: what it raises leaves the call
ReadBody ==
    /\ proxy.pc = "body"
    /\ \E ok \in BOOLEAN :
         proxy' = IF ok THEN [proxy EXCEPT !.pc = "connecting"]
                  ELSE [proxy EXCEPT !.pc = "raised", !.failure = "BodyRead"]
    /\ UNCHANGED <<gatewayVars, ws, parser, creating, tasks>>

\* the response proxy_request builds in one of its except clauses
Failed(failure) ==
    [proxy EXCEPT !.pc = "done", !.failure = failure,
                  !.status = CASE failure = "ConnectError" -> BadGateway
                               [] failure = "Timeout" -> GatewayTimeout
                               [] OTHER -> ProxyError]

\* client.request(...) up to the response headers: the connection fails, times
\* out, fails otherwise, or the upstream answers with a status and content type
Connect ==
    /\ proxy.pc = "connecting"
    /\ \/ \E failure \in {"ConnectError", "Timeout", "Other"} : proxy' = Failed(failure)
       \/ \E ctype \in {"text/event-stream", "application/json"}, st \in UpstreamStatuses,
             hs \in SUBSET ResponseHeaderNames :
            proxy' = [proxy EXCEPT !.pc = "reading", !.ctype = ctype,
                                   !.upstream_status = st, !.upstream_headers = hs]
    /\ UNCHANGED <<gatewayVars, ws, parser, creating, tasks>>

\* the upstream sends a chunk of the body
UpstreamChunk ==
    /\ proxy.pc = "reading" /\ ~proxy.ended /\ proxy.produced < MaxChunks
    /\ proxy' = [proxy EXCEPT !.produced = @ + 1]
    /\ UNCHANGED <<gatewayVars, ws, parser, creating, tasks>>

\* the upstream ends the body
UpstreamEnd ==
    /\ proxy.pc = "reading" /\ ~proxy.ended
    /\ proxy' = [proxy EXCEPT !.ended = TRUE]
    /\ UNCHANGED <<gatewayVars, ws, parser, creating, tasks>>

\* reading the body fails inside client.request: a read timeout, or another
\* transport error
ReadFails ==
    /\ proxy.pc = "reading" /\ ~proxy.ended
    /\ \E failure \in {"Timeout", "Other"} : proxy' = Failed(failure)
    /\ UNCHANGED <<gatewayVars, ws, parser, creating, tasks>>

\* client.request returns: httpx has read the body to its end (it sends with
\* stream=False)
Returnable == proxy.pc = "reading" /\ proxy.ended

\* proxy_request returns: a StreamingResponse over response.aiter_bytes() for
\* an event stream, else a Response holding response.content
ReturnResponse ==
    /\ Returnable
    /\ proxy' = IF proxy.ctype = "text/event-stream"
                THEN [proxy EXCEPT !.pc = "relaying", !.status = proxy.upstream_status,
                                   !.response_headers = SseHeaders(proxy.upstream_headers)]
                ELSE [proxy EXCEPT !.pc = "done", !.status = proxy.upstream_status,
                                   !.delivered = proxy.produced,
                                   !.response_headers =
                                       ResponseHeaders(proxy.upstream_headers)]
    /\ UNCHANGED <<gatewayVars, ws, parser, creating, tasks>>

\* generate(): one chunk of the response is yielded to the client, or the
\* iteration ends
RelayChunk ==
    /\ proxy.pc = "relaying"
    /\ proxy' = IF proxy.delivered < proxy.produced
                THEN [proxy EXCEPT !.delivered = @ + 1]
                ELSE [proxy EXCEPT !.pc = "done"]
    /\ UNCHANGED <<gatewayVars, ws, parser, creating, tasks>>

\* the steps the event loop runs once they can run
ProxySteps == ReadBody \/ Connect \/ ReturnResponse \/ RelayChunk

InitProxy ==
    /\ containers = EmptyDict /\ cfgHeap = EmptyDict
    /\ stats = EmptyDict /\ statsHeap = EmptyDict
    /\ containers_file = EmptyDict /\ stats_file = EmptyDict
    /\ container_info = EmptyDict /\ engine = EmptyDict
    /\ os_bound = {} /\ clock = 0
    /\ phase = "ready" /\ last = Idle
    /\ proxy = NoProxy
    /\ ws = NoBridge
    /\ parser = NoParse
    /\ creating = NoCreating
    /\ tasks = NoTasks

NextProxy ==
    \/ ProxyRequest
    \/ ReadBody
    \/ Connect
    \/ UpstreamChunk
    \/ UpstreamEnd
    \/ ReadFails
    \/ ReturnResponse
    \/ RelayChunk

SpecProxy == InitProxy /\ [][NextProxy]_vars /\ WF_vars(ProxySteps)

\* --------------------------------------- proxy.py (WebSocketProxy), app.py
gatewayStores == <<containers, cfgHeap, stats, statsHeap, containers_file, stats_file,
                   container_info>>

FrameKinds == {"text", "binary"}

\* the n-th frame a side sends: its type and its payload
Frame(kind, n) == <<kind, n>>

\* the inbound socket is closed during set-up
SetupFailed(cause, code) ==
    [Bridge("closed", cause, code, ws.closes \cup {<<cause, code>>})
        EXCEPT !.client_up = FALSE, !.target_up = FALSE]

\* proxy_mcp_websocket(websocket, server_name), up to websocket.accept() in
\* proxy_websocket. _docker_manager is None until the application has started.
proxy_mcp_websocket(server_name) ==
    /\ ws.pc = "idle"
    /\ last = Idle
    /\ phase \in {"constructed", "ready"}
    /\ IF phase = "constructed"
       THEN /\ ws' = SetupFailed("not_ready", NotReadyCode)
            /\ UNCHANGED <<gatewayVars, proxy, parser, creating, tasks>>
       ELSE IF server_name \notin DOMAIN container_info /\ server_name \notin DOMAIN containers
       THEN /\ ws' = SetupFailed("not_found", NotFoundCode)
            /\ UNCHANGED <<gatewayVars, proxy, parser, creating, tasks>>
       ELSE /\ clock < MaxClock
            /\ Commit(RecordRequest(server_name, clock + 1))
            /\ clock' = clock + 1
            /\ ws' = [Bridge("accepted", "", 0, ws.closes) EXCEPT !.accepted = TRUE]
            /\ UNCHANGED <<engine, os_bound, phase, last, proxy, parser, creating, tasks>>

\* websockets.connect(target_url) answers: the two forwarding tasks start, or
\* the exception closes the inbound socket
ConnectTarget ==
    /\ ws.pc = "accepted"
    /\ \E connected \in BOOLEAN :
         ws' = IF connected
               THEN [ws EXCEPT !.pc = "open", !.forward_to_target = "running",
                               !.forward_to_client = "running"]
               ELSE [SetupFailed("internal", InternalErrorCode) EXCEPT !.accepted = TRUE]
    /\ UNCHANGED <<gatewayVars, proxy, parser, creating, tasks>>

\* the client sends a frame
ClientSend(kind) ==
    /\ ws.pc = "open" /\ ws.client_up /\ Len(ws.client_sent) < MaxFrames
    /\ ws' = [ws EXCEPT !.client_sent = Append(@, Frame(kind, Len(@) + 1))]
    /\ UNCHANGED <<gatewayVars, proxy, parser, creating, tasks>>

\* the target sends a frame
TargetSend(kind) ==
    /\ ws.pc = "open" /\ ws.target_up /\ Len(ws.target_sent) < MaxFrames
    /\ ws' = [ws EXCEPT !.target_sent = Append(@, Frame(kind, Len(@) + 1))]
    /\ UNCHANGED <<gatewayVars, proxy, parser, creating, tasks>>

\* the client goes away
ClientDisconnect ==
    /\ ws.pc = "open" /\ ws.client_up
    /\ ws' = [ws EXCEPT !.client_up = FALSE]
    /\ UNCHANGED <<gatewayVars, proxy, parser, creating, tasks>>

\* the target goes away
TargetDisconnect ==
    /\ ws.pc = "open" /\ ws.target_up
    /\ ws' = [ws EXCEPT !.target_up = FALSE]
    /\ UNCHANGED <<gatewayVars, proxy, parser, creating, tasks>>

\* one turn of the loop of forward_to_target: receive_text() gives the next
\* frame of the client and target_ws.send passes it on. receive_text() raises
\* on a frame that holds no text (the frame is taken from the socket and lost)
\* and when the client is gone; send raises when the target is gone. Every
\* exception ends the task.
ForwardToTarget ==
    /\ ws.pc = "open" /\ ws.forward_to_target = "running"
    /\ IF ws.to_target < Len(ws.client_sent)
       THEN LET data == ws.client_sent[ws.to_target + 1]
            IN ws' = IF data[1] = "text" /\ ws.target_up
                     THEN [ws EXCEPT !.to_target = @ + 1,
                                     !.target_got = Append(@, data)]
                     ELSE [ws EXCEPT !.to_target = @ + 1,
                                     !.forward_to_target = "ended"]
       ELSE /\ ~ws.client_up
            /\ ws' = [ws EXCEPT !.forward_to_target = "ended"]
    /\ UNCHANGED <<gatewayVars, proxy, parser, creating, tasks>>

\* one turn of the loop of forward_to_client: the next frame of the target is
\* sent with send_text or send_bytes by its type. The iteration ends when the
\* target is gone; a send to a client that is gone raises and ends the task.
ForwardToClient ==
    /\ ws.pc = "open" /\ ws.forward_to_client = "running"
    /\ IF ws.to_client < Len(ws.target_sent)
       THEN LET message == ws.target_sent[ws.to_client + 1]
            IN ws' = IF ws.client_up
                     THEN [ws EXCEPT !.to_client = @ + 1,
                                     !.client_got = Append(@, message)]
                     ELSE [ws EXCEPT !.to_client = @ + 1,
                                     !.forward_to_client = "ended"]
       ELSE /\ ~ws.target_up
            /\ ws' = [ws EXCEPT !.forward_to_client = "ended"]
    /\ UNCHANGED <<gatewayVars, proxy, parser, creating, tasks>>

\* (variant: the bridge returns when the first of the two tasks has ended)
BridgeDone_FirstEnded ==
    /\ ws.pc = "open"
    /\ ws.forward_to_target = "ended" \/ ws.forward_to_client = "ended"
    /\ ws' = [ws EXCEPT !.pc = "closed", !.target_up = FALSE]
    /\ UNCHANGED <<gatewayVars, proxy, parser, creating, tasks>>

\* asyncio.gather returns once both tasks have ended; leaving the `async with`
\* closes the connection to the target
BridgeDone ==
    /\ ws.pc = "open"
    /\ ws.forward_to_target = "ended" /\ ws.forward_to_client = "ended"
    /\ ws' = [ws EXCEPT !.pc = "closed", !.target_up = FALSE]
    /\ UNCHANGED <<gatewayVars, proxy, parser, creating, tasks>>

\* the next connection arrives
NextConnection ==
    /\ ws.pc = "closed"
    /\ ws' = [NoBridge EXCEPT !.closes = ws.closes]
    /\ UNCHANGED <<gatewayVars, proxy, parser, creating, tasks>>

\* the steps the event loop runs once they can run
BridgeSteps == ConnectTarget \/ ForwardToTarget \/ ForwardToClient \/ BridgeDone

\* ------------------------------------------------------------------- Init
\* The state after ConfigManager() and DockerManager() were constructed: the two
\* files were loaded, nothing is tracked yet. The engine holds what earlier runs
\* and other users left in it, and other processes hold some host ports.
\* "a" may have a persisted config and a left-over or foreign entity; "b" may be
\* a peer an earlier run created: persisted, and running on the first port of
\* the automatic range.
InitStores ==
    LET A == {EmptyDict} \cup
             {[n \in {"a"} |-> [config |-> ContainerConfig(ip, hp), total |-> t]] :
                ip \in InternalPorts, hp \in PreferredPorts, t \in InitTotals}
        B == {EmptyDict,
              [n \in {"b"} |-> [config |-> ContainerConfig(DefaultInternalPort, AUTO_PORT_START),
                                total |-> 0]]}
    IN {[n \in DOMAIN x \cup DOMAIN y |-> IF n \in DOMAIN x THEN x[n] ELSE y[n]] :
            x \in A, y \in B}

InitEngines(st) ==
    LET A == {EmptyDict} \cup
             {[n \in {"a"} |-> Entity(1, "running", m, ip, hp)] :
                m \in BOOLEAN, ip \in InternalPorts, hp \in PreferredPorts}
        B == IF "b" \in DOMAIN st
             THEN {[n \in {"b"} |-> Entity(2, "running", TRUE, DefaultInternalPort,
                                          AUTO_PORT_START)]}
             ELSE {EmptyDict}
    IN {[n \in DOMAIN x \cup DOMAIN y |-> IF n \in DOMAIN x THEN x[n] ELSE y[n]] :
            x \in A, y \in B}

\* the state after construction: the files hold one of Sts, the engine one of
\* Engines[st]
InitState(Sts, Engines) ==
    /\ \E st \in Sts :
         /\ containers = [n \in DOMAIN st |-> IF n = "a" THEN 1 ELSE 2]
         /\ cfgHeap = [i \in Range(containers) |->
                         st[CHOOSE n \in DOMAIN st : containers[n] = i].config]
         /\ containers_file = [n \in DOMAIN st |-> st[n].config]
         /\ stats = containers
         /\ statsHeap = [i \in Range(stats) |->
                           [ContainerStats EXCEPT !.total_requests =
                               st[CHOOSE n \in DOMAIN st : stats[n] = i].total]]
         /\ stats_file = [n \in DOMAIN st |-> st[n].total]
         /\ engine \in Engines[st]
    /\ container_info = EmptyDict
    /\ os_bound \in {{}, (PreferredPorts \cup {AUTO_PORT_START}) \ EngineBound(engine)}
    /\ clock = 0
    /\ phase = "constructed"
    /\ last = Idle
    /\ proxy = NoProxy
    /\ ws = NoBridge
    /\ parser = NoParse
    /\ creating = NoCreating
    /\ tasks = NoTasks

Init == InitState(InitStores, [st \in InitStores |-> InitEngines(st)])

\* the caller takes the result of the call
Return ==
    /\ last # Idle
    /\ last' = Idle
    /\ UNCHANGED <<containers, cfgHeap, stats, statsHeap, containers_file, stats_file,
                   container_info, engine, os_bound, clock, phase, trafficVars>>

Next ==
    \/ Return
    \/ initialize
    \/ \E name \in Names : record_request(name)
    \/ \E name \in Names : remove_container(name)
    \/ \E name \in CreateNames, config \in InputConfigs, import_existing \in BOOLEAN :
         CreateContainer(name, config, import_existing)
    \/ \E name \in CreateNames : start_container(name)

Spec == Init /\ [][Next]_vars

\* ------------------------------------------------------- port allocation
\* _allocate_port(preferred_port) called on its own
AllocatePort(preferred_port) ==
    /\ Ready
    /\ \E list_err \in ListErrs :
         LET port == _allocate_port(G, preferred_port, list_err)
         IN Finish(G, engine, clock,
                   [Call("_allocate_port", "", FALSE,
                         IF port = 0 THEN "RuntimeError" ELSE "ok", {}, "", "")
                        EXCEPT !.port = preferred_port, !.out_port = port])

\* containers.yaml may hold, for any of the names, a config with any host port
AllocStores ==
    UNION {[D -> {[config |-> ContainerConfig(DefaultInternalPort, hp), total |-> 0] :
                    hp \in {0} \cup Ports}] : D \in SUBSET Names}

\* the engine may hold a running entity, published on any port, that no stored
\* config names
AllocEngines(st) ==
    {EmptyDict} \cup
    {[n \in {"a"} \ DOMAIN st |-> Entity(1, "running", TRUE, DefaultInternalPort, hp)] :
        hp \in Ports}

InitAlloc == InitState(AllocStores, [st \in AllocStores |-> AllocEngines(st)])

NextAlloc ==
    \/ Return
    \/ initialize
    \/ \E preferred_port \in {0} \cup Ports : AllocatePort(preferred_port)
    \/ \E config \in InputConfigs : CreateContainer("a", config, FALSE)

SpecAlloc == InitAlloc /\ [][NextAlloc]_vars

\* ------------------------------------------- lifecycle and resolution
\* the engine may also hold, under name "a", an entity that is stopped or that
\* publishes no host port; names get their configs from containers.yaml, and
\* start_container runs create_container for them
OpsEngines(st) ==
    LET A == {EmptyDict} \cup
             {[n \in {"a"} |-> Entity(1, s, m, ip, hp)] :
                s \in {"running", "exited"}, m \in BOOLEAN, ip \in InternalPorts,
                hp \in {0} \cup PreferredPorts}
        B == IF "b" \in DOMAIN st
             THEN {[n \in {"b"} |-> Entity(2, "running", TRUE, DefaultInternalPort,
                                          AUTO_PORT_START)]}
             ELSE {EmptyDict}
    IN {[n \in DOMAIN x \cup DOMAIN y |-> IF n \in DOMAIN x THEN x[n] ELSE y[n]] :
            x \in A, y \in B}

InitOps == InitState(InitStores, [st \in InitStores |-> OpsEngines(st)])

NextOps ==
    \/ Return
    \/ initialize
    \/ \E name \in Names : remove_container(name)
    \/ \E name \in CreateNames : start_container(name)
    \/ \E name \in Names : stop_container(name)
    \/ \E name \in Names : get_container_internal_url(name)

SpecOps == InitOps /\ [][NextOps]_vars

\* ------------------------------------------------------------ health loop
NextHealth ==
    \/ Return
    \/ initialize
    \/ _check_all_containers_health
    \/ \E name \in Names : stop_container(name)
    \/ cleanup

SpecHealth == InitOps /\ [][NextHealth]_vars

NextBridge ==
    \/ initialize
    \/ Return
    \/ \E server_name \in CreateNames : proxy_mcp_websocket(server_name)
    \/ ConnectTarget
    \/ \E kind \in FrameKinds : ClientSend(kind)
    \/ \E kind \in FrameKinds : TargetSend(kind)
    \/ ClientDisconnect
    \/ TargetDisconnect
    \/ ForwardToTarget
    \/ ForwardToClient
    \/ BridgeDone
    \/ NextConnection

InitBridge == InitState(InitStores, [st \in InitStores |-> {EmptyDict}])

SpecBridge == InitBridge /\ [][NextBridge]_vars /\ WF_vars(BridgeSteps)

\* two callers of create_container(config, import_existing=False) for one name
\* that has no DesiredConfig and no entity, after initialize
InitRace ==
    InitState({st \in InitStores : DOMAIN st \cap CreateNames = {}},
              [st \in InitStores |-> {eng \in InitEngines(st) : DOMAIN eng \cap CreateNames = {}}])

NextRace ==
    \/ initialize
    \/ Return
    \/ \E c \in Callers, name \in CreateNames, config \in InputConfigs :
         CreateBegin(c, name, config, FALSE)
    \/ \E c \in Callers : CreateGet(c)
    \/ \E c \in Callers : CreateAfterGet(c)
    \/ \E c \in Callers : CreatePull(c)
    \/ \E c \in Callers : CreateRun(c)
    \/ \E c \in Callers : CreateAfterRun(c)

SpecRace == InitRace /\ [][NextRace]_vars

\* the entity of `name` is removed by someone else than the gateway
\* (docker rm -f): the engine no longer holds it
RemovedOutside(name) ==
    /\ Ready
    /\ name \in DOMAIN engine
    /\ engine' = Del(engine, name)
    /\ UNCHANGED <<containers, cfgHeap, stats, statsHeap, containers_file, stats_file,
                   container_info, os_bound, clock, phase, last, trafficVars>>

NextGone ==
    \/ initialize
    \/ Return
    \/ _check_all_containers_health
    \/ \E name \in Names : RemovedOutside(name)

SpecGone == InitOps /\ [][NextGone]_vars

\* create_container for two names as coroutines, with start_container and
\* remove_container between their steps
\* the name each caller creates
NameOf == [c \in Callers |-> IF c = 1 THEN "a" ELSE "b"]

NextPorts ==
    \/ initialize
    \/ Return
    \/ \E c \in Callers, config \in InputConfigs :
         CreateBegin(c, NameOf[c], config, FALSE)
    \/ \E c \in Callers : CreateGet(c)
    \/ \E c \in Callers : CreateAfterGet(c)
    \/ \E c \in Callers : CreatePull(c)
    \/ \E c \in Callers : CreateRun(c)
    \/ \E c \in Callers : CreateAfterRun(c)
    \/ \E name \in Names : start_container(name)
    \/ \E name \in Names : remove_container(name)

\* nothing persisted, nothing in the engine, no port taken
InitPorts ==
    /\ InitState({EmptyDict}, [st \in {EmptyDict} |-> {EmptyDict}])
    /\ os_bound = {}

SpecPorts == InitPorts /\ [][NextPorts]_vars

\* create_container, the four lifecycle operations and the health task, all
\* as coroutines, for one name
InitTasks ==
    InitState({st \in InitStores : DOMAIN st \subseteq CreateNames},
              [st \in InitStores |-> {eng \in InitEngines(st) : ~(\E n \in DOMAIN eng : ~IsManaged(eng[n]))}])

NextTasks ==
    \/ initialize
    \/ Return
    \/ \E c \in Callers, name \in CreateNames, config \in InputConfigs :
         tasks.op[c].pc = "idle" /\ CreateBegin(c, name, config, TRUE)
    \/ \E c \in Callers : CreateGet(c)
    \/ \E c \in Callers : CreateAfterGet(c)
    \/ \E c \in Callers : CreatePull(c)
    \/ \E c \in Callers : CreateRun(c)
    \/ \E c \in Callers : CreateAfterRun(c)
    \/ \E c \in Callers, kind \in OpKinds, name \in CreateNames : OpBegin(c, kind, name)
    \/ \E c \in Callers : OpGet(c)
    \/ \E c \in Callers : OpAfterGet(c)
    \/ \E c \in Callers : OpEngine(c)
    \/ \E c \in Callers : OpAfterEngine(c)
    \/ \E c \in Callers : OpAfterCreate(c)
    \/ HealthWake
    \/ HealthGet
    \/ HealthApply

SpecTasks == InitTasks /\ [][NextTasks]_vars

\* the health task and the shutdown, step by step
ShutdownSteps == HealthCancelled \/ CleanupFlush \/ CleanupProxy

NextShutdown ==
    \/ initialize
    \/ Return
    \/ HealthWake
    \/ HealthGet
    \/ HealthApply
    \/ CleanupCancel
    \/ HealthCancelled
    \/ CleanupFlush
    \/ CleanupProxy

SpecShutdown == InitOps /\ [][NextShutdown]_vars /\ WF_vars(ShutdownSteps)

\* create_container with configs that carry labels of their own
LabelValues == {"true", "false", "a"}
LabelDicts ==
    UNION {[K -> LabelValues] : K \in SUBSET {GATEWAY_LABEL, GATEWAY_NAME_LABEL}}
LabelledConfigs ==
    {[ContainerConfig(DefaultInternalPort, 0) EXCEPT !.labels = l] : l \in LabelDicts}

NextLabels ==
    \/ initialize
    \/ Return
    \/ \E name \in CreateNames, config \in LabelledConfigs, import_existing \in BOOLEAN :
         CreateContainer(name, config, import_existing)
    \/ \E name \in CreateNames : remove_container(name)

SpecLabels == InitRace /\ [][NextLabels]_vars

\* the parser, one specification for each set of commands
NextParseAny == ParseCommand(AnyCommands) \/ ParseReturn
SpecParseAny == InitProxy /\ [][NextParseAny]_vars

NextParseShape == ParseCommand(ShapeCommands) \/ ParseReturn
SpecParseShape == InitProxy /\ [][NextParseShape]_vars

NextParseScan == ParseCommand(ScanCommands) \/ ParseReturn
SpecParseScan == InitProxy /\ [][NextParseScan]_vars

NextParseFlags == ParseCommand(FlagCommands) \/ ParseReturn
SpecParseFlags == InitProxy /\ [][NextParseFlags]_vars



\* ================================================================== claims
\* the DesiredConfig of every name, and the RequestStats counter of a name
Desired == [n \in DOMAIN containers |-> cfgHeap[containers[n]]]
Total(n) == statsHeap[stats[n]].total_requests
Stores == <<containers, cfgHeap, stats, statsHeap, containers_file, stats_file,
            container_info>>
\* create_container ran in the step just made, directly or from start_container
CreateRan == last.op \in {"create_container", "start_container"} /\ last.create # ""
\* create_container got past its validation steps and then failed
FailedPartway == CreateRan /\ last.create \in {"ImagePullFailed", "EngineAPIError"}

\* C1: create_container with import_existing = False for a name that has a
\* DesiredConfig raises NameConflict, issues no pull and no run, and leaves the
\* stores, the tracked state and the engine as they were.
C1_NameConflictBeforeAnyMutation ==
    [][(last'.op = "create_container" /\ ~last'.import_existing
            /\ last'.name \in DOMAIN containers)
        => (/\ last'.result = "NameConflict"
            /\ last'.calls = {}
            /\ UNCHANGED <<Stores, engine>>)]_vars

\* C1 witness: the second create of a name the first create made
C1_Witness ==
    /\ last.op = "create_container" /\ ~last.import_existing
    /\ last.result = "NameConflict"
    /\ last.name \in DOMAIN container_info
    /\ container_info[last.name].status = "running"
    /\ statsHeap[container_info[last.name].stats].created_at # 0

\* C2 (as claimed): one record_request for a name with a DesiredConfig adds
\* exactly one to its total_requests.
C2_IncrementsByOne ==
    [][\A n \in Names :
        (last'.op = "record_request" /\ last'.name = n /\ n \in DOMAIN containers
            /\ n \in DOMAIN stats)
        => (n \in DOMAIN stats' /\ Total(n)' = Total(n) + 1)]_vars

C4_RemovedEverywhere ==
    (last.op = "remove_container" /\ last.result = "True")
    => (/\ last.name \notin DOMAIN containers
        /\ last.name \notin DOMAIN stats
        /\ last.name \notin DOMAIN container_info)

\* C5: remove_container returns True or False and never raises; it returns
\* False only when the entity was found and container.remove raised, and then
\* the stores, the tracked state and the engine are as before the call.
C5_FalseOnlyOnEngineError ==
    [][(last'.op = "remove_container")
        => (/\ last'.result \in {"True", "False"}
            /\ (last'.result = "False"
                  => (/\ last'.name \in DOMAIN engine
                      /\ "remove" \in last'.calls
                      /\ UNCHANGED <<Stores, engine>>)))]_vars

\* C5 witness: a tracked, configured name whose removal failed at the engine
C5_Witness ==
    /\ last.op = "remove_container" /\ last.result = "False"
    /\ last.name \in DOMAIN containers
    /\ last.name \in DOMAIN container_info

\* C6 (as claimed): a create_container that fails after its validation steps,
\* called directly or from start_container, adds and changes no DesiredConfig
\* and leaves the tracked state as it was.
C6_FailedCreateChangesNoConfig ==
    [][FailedPartway' => (Desired' = Desired /\ containers_file' = containers_file
                          /\ container_info' = container_info)]_vars

\* C7 (as claimed): what a create_container(import_existing = False) that failed
\* partway leaves behind does not make the same call fail its validation: when
\* the engine held no entity of the name before the failed call, the retry finds
\* no name conflict and no existing entity.
C7_RetryNotRejected ==
    [][\A n \in Names :
        (FailedPartway' /\ last'.op = "create_container" /\ ~last'.import_existing
            /\ last'.name = n /\ n \notin DOMAIN engine)
        => (_check_name_conflict(G, n, FALSE) = "" /\ ~_get_container(n, FALSE))']_vars

\* C8 (as claimed): create_container never adopts an engine entity that lacks the
\* management label: it does not succeed, and it creates no DesiredConfig and
\* no ObservedState for the name.
C8_NeverAdoptsUnmanaged ==
    [][(CreateRan' /\ last'.name \in DOMAIN engine /\ ~IsManaged(engine[last'.name]))
        => (/\ last'.create # "ok"
            /\ DOMAIN containers' = DOMAIN containers
            /\ container_info' = container_info)]_vars

\* what the import of the entity of name n must leave: the config persisted with
\* the engine's host port, the name tracked with the engine's status and id
Imported(n) ==
    LET e == engine[n]
        hp == ReportedBinding(e, Desired[n].internal_port)
    IN /\ n \in DOMAIN containers
       /\ n \in DOMAIN containers_file /\ containers_file[n] = Desired[n]
       /\ n \in DOMAIN container_info
       /\ container_info[n].status = e.status
       /\ container_info[n].container_id = e.id
       /\ hp # 0 => (Desired[n].host_port = hp /\ container_info[n].host_port = hp)

\* create_container is called for a name without DesiredConfig while the engine
\* holds a gateway-managed entity of that name
ManagedUnconfigured(call) ==
    /\ call.op = "create_container"
    /\ call.name \in DOMAIN engine /\ IsManaged(engine[call.name])
    /\ call.name \notin DOMAIN containers

CreatedRunning(n) ==
    LET hp == ReportedBinding(engine[n], Desired[n].internal_port)
        st == statsHeap[container_info[n].stats]
    IN /\ container_info[n].status = "running"
       /\ st.created_at # 0 /\ st.started_at # 0
       /\ hp # 0 => (/\ Desired[n].host_port = hp
                     /\ containers_file[n].host_port = hp
                     /\ container_info[n].host_port = hp)

\* C10 (as claimed): every successful create_container leaves that.
C10_EverySuccessRunning ==
    (CreateRan /\ last.create = "ok") => CreatedRunning(last.name)

\* C10 (amended): a create_container that ran a new entity leaves that, with
\* both timestamps taken during the call.
C10_NewEntityRunning ==
    (CreateRan /\ last.create = "ok" /\ last.path = "run")
    => (/\ CreatedRunning(last.name)
        /\ statsHeap[container_info[last.name].stats].created_at = clock
        /\ statsHeap[container_info[last.name].stats].started_at = clock)

\* C10 witness: the engine bound another port than the one asked for
C10_Witness ==
    /\ CreateRan /\ last.create = "ok" /\ last.path = "run"
    /\ engine[last.name].status = "running"
    /\ engine[last.name].hport \in EphemeralPorts
    /\ container_info[last.name].host_port \in EphemeralPorts

\* get_container_internal_url returned in the step just made
Resolved == last.op = "get_container_internal_url"

\* C11: get_container_internal_url returns None exactly for the names that have
\* no DesiredConfig; a name with a DesiredConfig gets a URL also when the engine
\* lookup fails or finds no entity.
C11_NoneIffNoConfig ==
    Resolved => (last.url = <<>> <=> last.name \notin DOMAIN containers)

\* C11 witness: a URL for a configured name whose engine lookup failed
C11_Witness ==
    /\ Resolved /\ last.name \in DOMAIN containers
    /\ last.seen[last.name].err
    /\ last.url # <<>>

\* the URL the preference order gives name n when the engine answered a:
\* live binding, gateway-network IP, other IP, cached internal_url, default
ExpectedUrl(n, a) ==
    LET live == IF a.err THEN 0 ELSE ReportedBinding(engine[n], Desired[n].internal_port)
    IN IF live # 0 THEN <<"127.0.0.1", live>>
       ELSE IF a.gw_ip # "" THEN <<a.gw_ip, Desired[n].internal_port>>
       ELSE IF a.other_ip # "" THEN <<a.other_ip, Desired[n].internal_port>>
       ELSE IF n \in DOMAIN container_info THEN container_info[n].internal_url
       ELSE <<"127.0.0.1", Desired[n].internal_port>>

\* C12: for a name with a DesiredConfig get_container_internal_url returns the
\* first applicable entry of the preference order, and changes no store, no
\* tracked state and nothing in the engine.
C12_PreferenceOrder ==
    [][\A n \in Names :
        (Resolved' /\ last'.name = n /\ n \in DOMAIN containers)
        => (/\ last'.url = ExpectedUrl(n, last'.seen[n])
            /\ UNCHANGED <<Stores, engine>>)]_vars

\* C12 witness: the gateway-network IP returned for a tracked name (which has a
\* cached URL) whose entity also holds an address on another network
C12_Witness ==
    /\ Resolved /\ last.name \in DOMAIN container_info
    /\ last.seen[last.name].gw_ip # "" /\ last.seen[last.name].other_ip # ""
    /\ last.url = <<last.seen[last.name].gw_ip, Desired[last.name].internal_port>>

\* the port ledger: the host ports of the stored configs and the ports the
\* engine reports as published
Ledger ==
    ({Desired[n].host_port : n \in DOMAIN containers}
        \cup {ReportedBinding(engine[n], engine[n].iport) : n \in DOMAIN engine}) \ {0}
\* a port allocate may hand out: absent from the ledger and bindable
Usable(p) == p \notin Ledger /\ is_port_available(p)
PreferredUsable(p) == p # 0 /\ Usable(p)
Allocated == last.op = "_allocate_port"

C14_ExhaustedExactly ==
    [][/\ Allocated'
            => (last'.result = "RuntimeError"
                  <=> (~PreferredUsable(last'.port) /\ \A p \in AutoRange : ~Usable(p)))
       /\ (CreateRan' /\ last'.create = "PortRangeExhausted")
            => (/\ ~PreferredUsable(last'.port) /\ \A p \in AutoRange : ~Usable(p)
                /\ last'.calls = {}
                /\ UNCHANGED <<Stores, engine>>)]_vars

\* C14 witness: a create_container without host port that found the range full
C14_Witness ==
    /\ last.op = "create_container" /\ last.create = "PortRangeExhausted"
    /\ last.port = 0

\* C15 (as claimed): start_container for a tracked name whose entity the engine
\* returns as running issues no start, returns True, and leaves the tracked
\* state and the stats (started_at included) as they were.
C15_StartRunningIsNoOp ==
    [][\A n \in Names :
        (/\ last'.op = "start_container" /\ last'.name = n /\ last'.create = ""
         /\ n \in DOMAIN container_info
         /\ n \in DOMAIN engine /\ engine[n].status = "running")
        => (/\ last'.result = "True" /\ last'.calls = {}
            /\ container_info' = container_info
            /\ stats' = stats /\ statsHeap' = statsHeap)]_vars

\* C16 (as claimed): stop_container for a tracked name whose entity is not
\* running or does not exist, and whose tracked status is exited or not_created,
\* issues no stop, returns True and leaves the tracked status as it was.
C16_StopStoppedIsNoOp ==
    [][\A n \in Names :
        (/\ last'.op = "stop_container" /\ last'.name = n
         /\ n \in DOMAIN container_info
         /\ container_info[n].status \in {"exited", "not_created"}
         /\ (n \notin DOMAIN engine \/ engine[n].status # "running"))
        => (/\ last'.result = "True" /\ last'.calls = {}
            /\ n \in DOMAIN container_info'
            /\ container_info'[n].status = container_info[n].status)]_vars

\* C17: start_container for a name without engine entity runs create_container
\* when the name has a DesiredConfig: it returns True exactly when that
\* succeeded, the entity then exists and the name is tracked as running with its
\* id, and False (never an exception) when it failed; without DesiredConfig it
\* returns False and changes nothing.
C17_StartCreatesFromConfig ==
    [][\A n \in Names :
        (last'.op = "start_container" /\ last'.name = n /\ n \notin DOMAIN engine)
        => IF n \in DOMAIN containers
           THEN /\ last'.create # ""
                /\ last'.result \in {"True", "False"}
                /\ last'.result = "True" <=> last'.create = "ok"
                /\ last'.create = "ok"
                     => (/\ last'.path = "run" /\ last'.calls = {"pull", "run"}
                         /\ n \in DOMAIN engine' /\ n \in DOMAIN container_info'
                         /\ container_info'[n].status = "running"
                         /\ container_info'[n].container_id = engine'[n].id)
           ELSE /\ last'.result = "False" /\ last'.calls = {}
                /\ UNCHANGED <<Stores, engine>>]_vars

\* C17 witness: a start that created the entity of a stored config
C17_Witness ==
    /\ last.op = "start_container" /\ last.result = "True"
    /\ last.create = "ok" /\ last.path = "run"
    /\ last.name \in DOMAIN engine
    /\ container_info[last.name].container_id = engine[last.name].id

HealthTicked == last.op = "_check_all_containers_health"

\* C18: a tick of the health loop leaves the loop running, and updates every
\* tracked name whose entity the engine returned to the status and health the
\* engine reported, whether or not other names of the same tick failed; a name
\* that could not be polled keeps what it had.
C18_TickUpdatesEveryReturnedName ==
    [][HealthTicked'
        => (/\ phase' = "ready"
            /\ DOMAIN container_info' = DOMAIN container_info
            /\ \A n \in DOMAIN container_info :
                 IF last'.seen[n].err
                 THEN container_info'[n] = container_info[n]
                 ELSE /\ container_info'[n].status = engine[n].status
                      /\ container_info'[n].health_status = last'.seen[n].health)]_vars

\* C18 witness: a tick, after an earlier one, in which one name could not be
\* polled and another was updated
C18_Witness ==
    /\ HealthTicked
    /\ \E n, m \in DOMAIN container_info :
         /\ last.seen[n].err /\ container_info[n].health_status = "healthy"
         /\ ~last.seen[m].err /\ container_info[m].health_status = "unhealthy"

C20_NeverRaises ==
    /\ proxy.pc # "raised"
    /\ proxy.failure # "" => proxy.pc = "done"
    /\ proxy.failure = "ConnectError" => proxy.status = BadGateway
    /\ proxy.failure = "Timeout" => proxy.status = GatewayTimeout
    /\ proxy.failure \in {"Other", "BodyRead"} => proxy.status = ProxyError

\* C21 (as claimed): no hop-by-hop header passes in either direction, and every
\* other header passes, except content-encoding on responses: the request sent
\* upstream carries exactly the inbound headers that are not hop-by-hop, and a
\* response relayed from the upstream, buffered or event-stream, carries
\* exactly the upstream headers that are neither hop-by-hop nor
\* content-encoding.
C21_NoHopByHopEitherWay ==
    /\ proxy.pc # "idle" =>
         proxy.headers = {k \in proxy.request_headers : Lower(k) \notin hop_by_hop}
    /\ (proxy.status # 0 /\ proxy.failure = "") =>
         proxy.response_headers =
            {k \in proxy.upstream_headers :
                Lower(k) \notin hop_by_hop \cup {"content-encoding"}}

Connected == ws.pc = "open" /\ ws.client_up /\ ws.target_up

IsPrefix(a, b) == Len(a) <= Len(b) /\ \A i \in 1 .. Len(a) : a[i] = b[i]

\* C22 (as claimed): what has arrived on either side is, frame for frame (type
\* and payload), the beginning of what the other side has sent, and the k-th
\* frame a side has sent arrives at the other side unless a side disconnects.
C22_BridgeDeliversEveryFrame ==
    /\ [](IsPrefix(ws.target_got, ws.client_sent) /\ IsPrefix(ws.client_got, ws.target_sent))
    /\ \A k \in 1 .. MaxFrames :
         /\ (Connected /\ Len(ws.client_sent) >= k)
                ~> (Len(ws.target_got) >= k \/ ~Connected)
         /\ (Connected /\ Len(ws.target_sent) >= k)
                ~> (Len(ws.client_got) >= k \/ ~Connected)

\* C23 (as claimed): two set-ups that failed for different causes closed the
\* inbound socket with different codes.
C23_CloseCodeTellsCause ==
    \A p, q \in ws.closes : p[1] # q[1] => p[2] # q[2]

\* C24 (as claimed): initialize fails exactly when the ping fails; a failed
\* initialize populates no ObservedState and does not start the health loop; a
\* network that cannot be listed or created, or a name whose lookup fails,
\* does not fail it, and the health loop is started.
C24_OnlyPingIsFatal ==
    [][last'.op = "initialize" =>
        /\ (last'.result = "RuntimeError") <=> (last'.create = "ping_failed")
        /\ last'.result = "RuntimeError" =>
              (container_info' = container_info /\ phase' = "failed")
        /\ last'.result # "RuntimeError" =>
              (last'.result = "ok" /\ phase' = "ready")]_vars

\* C24 witness: initialize has returned without error although the network
\* could not be listed and the lookup of a name failed; the name is tracked and
\* the health loop runs
C24_Witness ==
    /\ last.op = "initialize" /\ last.result = "ok"
    /\ last.path = "list_failed"
    /\ phase = "ready"
    /\ \E n \in DOMAIN last.seen : n \in DOMAIN container_info

\* C25 (as claimed): after initialize every persisted DesiredConfig has an
\* ObservedState. A name the engine knows has the engine's status and id and
\* the host port the engine reports, and its DesiredConfig.hostPort, in memory
\* and on file, is that port; a name the engine does not know is not_created
\* and has no engine id.
C25_InitializeReconcilesEveryName ==
    [][(last'.op = "initialize" /\ last'.result = "ok") =>
        \A n \in DOMAIN containers' :
            /\ n \in DOMAIN container_info'
            /\ IF n \in DOMAIN engine
               THEN LET actual_port ==
                            ReportedBinding(engine[n], cfgHeap[containers[n]].internal_port)
                    IN /\ container_info'[n].status = engine[n].status
                       /\ container_info'[n].container_id = engine[n].id
                       /\ actual_port # 0 =>
                            /\ container_info'[n].host_port = actual_port
                            /\ cfgHeap'[containers'[n]].host_port = actual_port
                            /\ containers_file'[n].host_port = actual_port
               ELSE /\ container_info'[n].status = "not_created"
                    /\ container_info'[n].container_id = 0]_vars

\* ---- the parser (docker_parser.py)
\* What the specification calls the image token: scanning from token i on, a
\* listed value-taking flag takes the token after it, and the first token left
\* that does not start with '-' is the image; 0 when there is none.
RECURSIVE ImageAt(_, _)
ImageAt(tokens, i) ==
    IF i > Len(tokens) THEN 0
    ELSE IF ~StartsWith(tokens[i], <<"-">>) THEN i
    ELSE IF tokens[i] \in ValueFlagSpellings THEN ImageAt(tokens, i + 2)
    ELSE ImageAt(tokens, i + 1)

ImageIndex(tokens) == ImageAt(tokens, SkipProgram(tokens, 1))

\* a call of parse has returned
Parsed == parser.pc = "done"

\* the three causes of failure the specification lists
ListedFailure ==
    \/ ~parser.split_ok
    \/ parser.tokens = <<>>
    \/ ImageIndex(parser.tokens) = 0

\* a parse leaves the gateway's state as it was, whether it fails or not
ParseChangesNothing == [][parser' # parser => UNCHANGED gatewayVars]_vars

\* C26 (as claimed): parse fails exactly when the splitting fails, the command
\* is empty or no image token is found; every other command gives a record
\* with a non-empty image; a failed parse changes no gateway state.
C26_FailsExactlyWhenListed ==
    /\ [](Parsed => /\ parser.parsed.error # "" <=> ListedFailure
                    /\ parser.config.error # "" <=> ListedFailure
                    /\ parser.parsed.error = "" => parser.parsed.image # <<>>)
    /\ ParseChangesNothing

\* C26 (amended): parse fails exactly when the splitting fails, the command is
\* empty, no image token is found, or the image token is the empty word (as
\* `""` gives); every other command gives a record with a non-empty image; a
\* failed parse changes no gateway state.
C26_FailsWhenListedOrImageEmpty ==
    /\ [](Parsed =>
            LET failure == \/ ListedFailure
                           \/ parser.tokens[ImageIndex(parser.tokens)] = <<>>
            IN /\ parser.parsed.error # "" <=> failure
               /\ parser.config.error # "" <=> failure
               /\ parser.parsed.error = "" => /\ parser.parsed.image # <<>>
                                              /\ parser.config.image # <<>>)
    /\ ParseChangesNothing

\* C26 witness: a command whose image token is the empty word was parsed and
\* the parse failed
C26_Witness ==
    /\ Parsed /\ ~ListedFailure
    /\ parser.tokens[ImageIndex(parser.tokens)] = <<>>
    /\ parser.parsed.error = "no_image"

\* C27: for a command `run [--name N] {-p H:C} {-e K[=V]} IMAGE` parse returns
\* name N, or without --name the last path segment of IMAGE without its tag
\* and with '.' and '_' replaced by '-'; image IMAGE; hostPort H and
\* internalPort C of the first port mapping, or internalPort 8081 and no
\* hostPort when there is none; and an env mapping with one entry per K whose
\* value is V, or the empty string when the assignment has no '='.
C27_ShapeGivesFields ==
    Parsed /\ parser.split_ok =>
        \A n \in ShapeNames, image \in ShapeImages,
           ps \in SeqsUpTo(ShapePorts, MaxFlags), es \in SeqsUpTo(ShapeEnvs, MaxFlags) :
            DistinctKeys(es) /\ parser.tokens = ShapeTokens(n, ps, es, image) =>
                /\ parser.config.error = ""
                /\ parser.config.name = IF n # None THEN n ELSE image.derived
                /\ parser.config.image = image.token
                /\ parser.config.host_port = IF ps # <<>> THEN ps[1].host ELSE 0
                /\ parser.config.internal_port =
                        IF ps # <<>> THEN ps[1].container ELSE 8081
                /\ DOMAIN parser.config.env = {es[k].key : k \in 1 .. Len(es)}
                /\ \A k \in 1 .. Len(es) : parser.config.env[es[k].key] = es[k].value

\* C27 witness: a command without --name, with two port mappings and with an
\* assignment without '=' next to one with '=', was parsed: the name is derived
\* from a path with a tag, the first mapping gives the ports and the bare key
\* has the empty value
C27_Witness ==
    /\ Parsed /\ parser.config.error = ""
    /\ \E n \in ShapeNames, image \in ShapeImages,
          ps \in SeqsUpTo(ShapePorts, MaxFlags), es \in SeqsUpTo(ShapeEnvs, MaxFlags) :
            /\ parser.tokens = ShapeTokens(n, ps, es, image)
            /\ n = None /\ Len(ps) = 2 /\ ps[1] # ps[2] /\ Len(es) = 2
            /\ image.derived # image.token
            /\ parser.config.name = image.derived
            /\ parser.config.host_port = ps[1].host
            /\ \E k \in 1 .. 2 : es[k].value = <<>> /\ parser.config.env[es[k].key] = <<>>
            /\ \E k \in 1 .. 2 : es[k].value # <<>>

\* the places the scan of the specification looks at for a flag, from token i on
RECURSIVE Scanned(_, _)
Scanned(tokens, i) ==
    IF i > Len(tokens) \/ ~StartsWith(tokens[i], <<"-">>) THEN {}
    ELSE {i} \cup Scanned(tokens, IF tokens[i] \in ValueFlagSpellings THEN i + 2 ELSE i + 1)

\* a token of boolean short switches only, such as -dit
SwitchBundle(token) ==
    /\ Len(token) > 2 /\ token[1] = "-"
    /\ \A k \in 2 .. Len(token) : token[k] \in {"d", "i", "t"}

\* a flag the parser does not list, in none of its spellings
UnknownFlag(token) ==
    /\ StartsWith(token, <<"-">>)
    /\ token \notin ValueFlagSpellings \cup {Flag.d, Flag.detach, Flag.i, Flag.interactive, Flag.t, Flag.tty}
    /\ \A flag \in ValueFlagSpellings : ~HasValue(token, flag)
    /\ ~SwitchBundle(token)

\* tokens without the one at place j
Without(tokens, j) == SubSeq(tokens, 1, j - 1) \o SubSeq(tokens, j + 1, Len(tokens))

\* the fields of a parse result other than the image and the argument vector
Settings(r) == [r EXCEPT !.image = <<>>, !.extra_args = <<>>]

\* the first remaining token that does not start with '-' is the image
ImageIsFirstPlainToken ==
    Parsed /\ parser.split_ok /\ ImageIndex(parser.tokens) # 0 =>
        parser.parsed.image = parser.tokens[ImageIndex(parser.tokens)]

\* the tokens after the image are the argument vector and change no field
ArgumentsPassThrough ==
    Parsed /\ parser.split_ok /\ ImageIndex(parser.tokens) # 0 =>
        LET k == ImageIndex(parser.tokens)
        IN /\ parser.parsed.extra_args = SubSeq(parser.tokens, k + 1, Len(parser.tokens))
           /\ Settings(parser.parsed) =
                Settings(parse_docker_run(TRUE, SubSeq(parser.tokens, 1, k)))

\* an unknown flag before the image is skipped: the parse gives what it gives
\* without that token
UnknownFlagSkipped ==
    Parsed /\ parser.split_ok =>
        \A j \in Scanned(parser.tokens, SkipProgram(parser.tokens, 1)) :
            UnknownFlag(parser.tokens[j]) =>
                parser.parsed = parse_docker_run(TRUE, Without(parser.tokens, j))

\* C28 (as claimed): scanning the tokens after the program names from left to
\* right, every listed value-taking flag taking its value, the first remaining
\* token that does not start with '-' is the image; every token after the
\* image is passed unchanged and in order into the argument vector and changes
\* no name, port, env, label or limit; an unknown flag before the image is
\* skipped without error and changes no field.
C28_ScanFindsImageAndSkipsUnknown ==
    ImageIsFirstPlainToken /\ ArgumentsPassThrough /\ UnknownFlagSkipped

\* `flag=value` in one token gives what `flag value` in two tokens gives
OneTokenAsTwo(flags) ==
    Parsed /\ parser.split_ok =>
        \A flag \in flags, value \in FlagValues :
            parser.tokens = <<run, flag \o <<"=">> \o value, <<"i", "m", "g">>>> =>
                /\ parser.parsed = parse_docker_run(TRUE, <<run, flag, value, <<"i", "m", "g">>>>)
                /\ parser.config = parse_docker_command(TRUE, <<run, flag, value, <<"i", "m", "g">>>>)

\* a token of bundled boolean switches sets the switches it names and nothing
\* else
BundleSetsItsSwitches ==
    Parsed /\ parser.split_ok =>
        \A bundle \in BundledSwitches :
            parser.tokens = <<run, bundle, <<"i", "m", "g">>>> =>
                LET named(c) == \E k \in 2 .. Len(bundle) : bundle[k] = c
                IN parser.parsed =
                     [parse_docker_run(TRUE, <<run, <<"i", "m", "g">>>>)
                        EXCEPT !.detach = named("d"), !.interactive = named("i"),
                               !.tty = named("t")]

\* C29 (as claimed): for every value-taking flag spelling the parser lists
\* (--name, -p/--publish, -e/--env, -v/--volume, --restart, --network,
\* -l/--label, -m/--memory, --cpus) the one token `flag=value` gives the same
\* parse result as the two tokens `flag value`; a token bundling several
\* boolean short switches (such as -dit) sets exactly those switches.
C29_FlagFormsEquivalent ==
    OneTokenAsTwo(ValueFlagSpellings) /\ BundleSetsItsSwitches

\* the spellings of two dashes, for which the equivalence holds
LongSpellingsEquivalent ==
    OneTokenAsTwo({flag \in ValueFlagSpellings : StartsWith(flag, <<"-", "-">>)})

\* ---- concurrent create_container
\* both callers have their answer
BothReturned == \A c \in Callers : creating[c].pc = "done"

\* the name has the entity, the DesiredConfig and the ObservedState call c made
HoldsWhatMade(c) ==
    LET co == creating[c]
        name == co.name
    IN /\ name \in DOMAIN engine /\ engine[name] = co.container
       /\ name \in DOMAIN containers /\ cfgHeap[containers[name]] = co.config
       /\ containers_file[name] = co.config
       /\ co.config.host_port = co.container.hport
       /\ name \in DOMAIN container_info
       /\ container_info[name].config = containers[name]
       /\ container_info[name].container_id = co.container.id
       /\ container_info[name].status = "running"
       /\ container_info[name].host_port = co.container.hport

\* C30: of two concurrent createContainer calls with importExisting=false for
\* the same new name at most one returns success, in every interleaving, and
\* the other fails with an error returned to its caller; afterwards the engine
\* holds one entity of that name, and the DesiredConfig and the ObservedState
\* of the name are those of the call that succeeded.
C30_OneCreateWins ==
    /\ ~ \A c \in Callers : creating[c].result = "ok"
    /\ BothReturned =>
         \A c \in Callers :
            creating[c].result = "ok" =>
                /\ \A d \in Callers \ {c} :
                     creating[d].result \in {"NameConflict", "AlreadyExists",
                                             "PortRangeExhausted", "ImagePullFailed",
                                             "EngineAPIError"}
                /\ HoldsWhatMade(c)

\* C30 witness: both calls were past their lookup before either entity was
\* made (each asked the engine to run one), they were given different
\* configs, one succeeded and the other got the engine's error
C30_Witness ==
    /\ BothReturned
    /\ \E c \in Callers :
         /\ creating[c].result = "ok" /\ HoldsWhatMade(c)
         /\ \A d \in Callers \ {c} :
              /\ creating[d].result = "EngineAPIError"
              /\ creating[d].run = "api_error"
              /\ creating[d].config.host_port # creating[c].config.host_port

\* ---- the tracked state between operations
\* C31 (as claimed): whenever no lifecycle operation is in progress, the
\* resolvedHostPort of a tracked name is set if and only if the engine reports
\* a live host-port binding for the name's internalPort; a name whose entity
\* does not exist (status not_created) has no resolvedHostPort.
C31_HostPortIffEngineBinding ==
    Ready =>
        \A n \in DOMAIN container_info :
            LET info == container_info[n]
                bound == /\ n \in DOMAIN engine
                         /\ ReportedBinding(engine[n], cfgHeap[info.config].internal_port) # 0
            IN /\ info.host_port # 0 <=> bound
               /\ info.status = "not_created" => info.host_port = 0

\* the status values and the transitions of the state machine of a name
StatusValues == {"not_created", "creating", "running", "exited", "error"}

StatusTransitions ==
    {<<"not_created", "creating">>, <<"creating", "running">>,
     <<"running", "exited">>, <<"exited", "running">>}
    \cup {<<st, "error">> : st \in StatusValues}

\* C32 (as claimed): the status of every tracked name is always one of
\* not_created, creating, running, exited, error, and it changes only along
\* not_created to creating, creating to running, running to exited, exited to
\* running, any state to error, and any state to untracked; no operation and no
\* health-poll tick produces another value or another transition.
C32_StatusFollowsStateMachine ==
    [][\A n \in DOMAIN container_info' :
         /\ container_info'[n].status \in StatusValues
         /\ (n \in DOMAIN container_info
             /\ container_info'[n].status # container_info[n].status) =>
                <<container_info[n].status, container_info'[n].status>>
                    \in StatusTransitions]_vars

\* ---- the two directions of a bridge
\* the end of one forwarding task leaves the other as it is
EndsAlone ==
    [][/\ (ws.forward_to_target = "running" /\ ws'.forward_to_target = "ended")
            => ws'.forward_to_client = ws.forward_to_client
       /\ (ws.forward_to_client = "running" /\ ws'.forward_to_client = "ended")
            => ws'.forward_to_target = ws.forward_to_target]_vars

\* C33: the inbound socket is accepted before the outbound connection is
\* opened; the end or failure of one direction does not cancel the other, which
\* keeps forwarding (after forward_to_target has ended, the k-th frame of the
\* target still reaches the client unless the client is gone, and after
\* forward_to_client has ended, forward_to_target still takes the k-th frame
\* of the client unless it ends itself); the bridge returns only after both
\* directions have ended.
C33_DirectionsIndependent ==
    /\ [][ws.pc # "open" /\ ws'.pc = "open" => ws.accepted]_vars
    /\ EndsAlone
    /\ \A k \in 1 .. MaxFrames :
         /\ (ws.pc = "open" /\ ws.forward_to_target = "ended" /\ Len(ws.target_sent) >= k)
                ~> (Len(ws.client_got) >= k \/ ~ws.client_up)
         /\ (ws.pc = "open" /\ ws.forward_to_client = "ended" /\ Len(ws.client_sent) >= k)
                ~> (ws.to_target >= k \/ ws.forward_to_target = "ended")
    /\ [][ws.pc = "open" /\ ws'.pc = "closed" =>
            ws.forward_to_target = "ended" /\ ws.forward_to_client = "ended"]_vars

\* C33 witness: forward_to_target has ended over a frame it could not pass on,
\* and forward_to_client, still running, has delivered every frame of the
\* target to the client
C33_Witness ==
    /\ ws.pc = "open" /\ ws.accepted
    /\ ws.forward_to_target = "ended" /\ ws.forward_to_client = "running"
    /\ Len(ws.target_got) < ws.to_target
    /\ ws.client_got = ws.target_sent /\ Len(ws.client_got) = MaxFrames

\* C40 (as claimed): when either side of a bridge disconnects, the bridge
\* eventually closes its connection to the other side and returns, also when
\* the remaining side sends nothing more and does not close by itself.
C40_DisconnectEndsBridge ==
    (ws.pc = "open" /\ (~ws.client_up \/ ~ws.target_up)) ~> (ws.pc = "closed")

\* C37 (as claimed): when remove_container(name) returns True (no
\* create_container for the name overlaps it), the engine holds no entity with
\* that name at the return, and the DesiredConfig of an entity that still
\* exists in the engine is never dropped, also when the lookup itself failed.
C37_RemovedMeansGoneFromEngine ==
    [][/\ (last'.op = "remove_container" /\ last'.result = "True")
            => last'.name \notin DOMAIN engine'
       /\ \A n \in DOMAIN containers \ DOMAIN containers' :
            n \notin DOMAIN engine']_vars

\* C39 (as claimed): every entity create_container starts in the engine carries
\* the management label with value "true" and the name label equal to its
\* logical name, whatever labels the config supplies, so that a later
\* _check_name_conflict recognises it as gateway-managed.
C39_CreatedEntityIsLabelled ==
    [][(CreateRan' /\ last'.name \in DOMAIN engine' \ DOMAIN engine) =>
         LET container == engine'[last'.name]
         IN /\ Merge(Put(EmptyDict, GATEWAY_LABEL, ""), container.labels)[GATEWAY_LABEL] = "true"
            /\ Merge(Put(EmptyDict, GATEWAY_NAME_LABEL, ""), container.labels)[GATEWAY_NAME_LABEL]
                   = last'.name
            /\ IsManaged(container)]_vars

\* C38 (as claimed): after a tick of the health poll that completed while the
\* engine held no entity for a tracked name, the status of that name is no
\* longer "running".
C38_PollSeesMissingEntity ==
    [][last'.op = "_check_all_containers_health" =>
         \A n \in DOMAIN container_info' :
            n \notin DOMAIN engine => container_info'[n].status # "running"]_vars

\* ---- shutdown
ShutdownOrder == <<"cancel", "task_ended", "save_all", "client.close", "aclose">>

\* C34: shutdown cancels the health task, waits until it has ended, flushes
\* config and stats, releases the engine client and closes the outbound HTTP
\* client, in this order; the cancelled task ends without raising, so a
\* shutdown that has begun reaches its last step; and from the flush on no
\* step changes the ObservedState.
C34_ShutdownInOrder ==
    /\ [](/\ Len(tasks.cleanup.steps) <= Len(ShutdownOrder)
          /\ tasks.cleanup.steps = SubSeq(ShutdownOrder, 1, Len(tasks.cleanup.steps)))
    /\ []((Len(tasks.cleanup.steps) >= 2) => tasks.health.pc = "ended")
    /\ [][Len(tasks'.cleanup.steps) >= 3 => container_info' = container_info]_vars
    /\ (tasks.cleanup.pc = "await_task") ~> (tasks.cleanup.pc = "done")

\* C34 witness: the shutdown is through, and the task was cancelled in a pass,
\* holding an answer of the engine that it never applied
C34_Witness ==
    /\ tasks.cleanup.pc = "done" /\ tasks.cleanup.steps = ShutdownOrder
    /\ tasks.health.ended_at = "got" /\ ~tasks.health.report.err
    /\ container_info[tasks.health.name].health_status # tasks.health.report.health

\* C36 (as claimed): starting from a store in which no two names share a host
\* port, no two distinct names ever hold the same host_port in the store, under
\* every interleaving of create_container, start_container and
\* remove_container calls.
C36_HostPortsDistinct ==
    \A n, m \in DOMAIN containers :
        (n # m /\ cfgHeap[containers[n]].host_port # 0)
            => cfgHeap[containers[n]].host_port # cfgHeap[containers[m]].host_port

\* C35: after a successful initialize, at every point where control can pass
\* between tasks, the names with a ContainerInfo are the names with a config,
\* under every interleaving of create_container, remove_container,
\* start_container, stop_container, restart_container and the passes of the
\* health task; and no step of a pass changes the set of tracked names, so a
\* pass that overlaps a remove_container does not bring the name back.
C35_TrackedIffConfigured ==
    /\ [](phase = "ready" => DOMAIN container_info = DOMAIN containers)
    /\ [][tasks'.health # tasks.health =>
            DOMAIN container_info' = DOMAIN container_info]_vars

\* C35 witness: a pass of the health task holds an answer of the engine for a
\* name that a remove_container, returned True, has dropped in the meantime
C35_Witness ==
    /\ tasks.health.pc = "got" /\ ~tasks.health.report.err
    /\ tasks.health.name \notin DOMAIN container_info
    /\ tasks.health.name \notin DOMAIN containers
    /\ \E c \in Callers :
         /\ tasks.op[c].kind = "remove_container" /\ tasks.op[c].result = "True"
         /\ tasks.op[c].name = tasks.health.name

====
